---- MODULE Spec2Model ----
(***************************************************************************)
(* A model of the poly_trader backend: the risk gate and the daily budget  *)
(* ledger (risk.service.ts), the AI trading loop's validate-then-execute   *)
(* path (trading.service.ts), the arbitrage ("spread") execution and its   *)
(* resolution scheduler (spread.service.ts), the start/stop timers of the  *)
(* three loops, the resolution of expired AI trades, the spread scanner    *)
(* (scanAll) and the advisory part of the trading cycle (cooldown and      *)
(* fallback between the advisors).                                         *)
(*                                                                         *)
(* Money is counted in whole currency units and confidence in tenths       *)
(* (0.6 is 6).  Time is relative: an end_date is the number of ticks left  *)
(* until it (0: it has passed), a timer is the number of ticks left until  *)
(* it is due; a tick is 10 s, and time moves from one such instant to the  *)
(* next one reached; the age of a last_seen_at or last_analyzed_at is the  *)
(* number of ticks since it.  The process is a single-threaded event       *)
(* loop, so an action is one run-to-completion segment of a handler: the   *)
(* code between two awaits that really wait (an HTTP call, an order        *)
(* placement, a sleep).                                                    *)
(***************************************************************************)
EXTENDS Integers, Sequences, FiniteSets, TLC

VARIABLES
  risk_config,        \* table risk_config: no row, or the singleton row
  budget_tracking,    \* table budget_tracking, today's row: none or one
  budgetUpdates,      \* history: the sums over today's updateBudget calls
  trades,             \* table trades (AI trades), in insertion order
  aiFlows,            \* analyzeAndTrade calls between validation and debit
  lastVal,            \* history: the validateTrade call just made, if any
  approvedSum,        \* history: sum of the sizes the gate approved and
                      \* that were executed today
  paper_trading_mode, \* app_config.paper_trading_mode
  spread_opportunities, \* table spread_opportunities, by id
  spread_trades,      \* table spread_trades, by id (insertion order)
  spreadErrors,       \* history: the ids for which executeSpread threw at the lookup
  closedAtSource,     \* data source: the opportunities whose market or
                      \* event it reports closed
  pm,                 \* PolymarketService: cached isPaperMode, client
  exec,               \* the executeSpread call in flight, if any
  isResolverRunning,  \* SpreadService.isResolverRunning
  resolveInterval,    \* SpreadService.resolveInterval: a timer's id, or 0
  timers,             \* the resolver's pending timeouts
  schedCheck,         \* runCheckAndReschedule's checkOpenTrades calls in flight
  manualCheck,        \* POST /check's checkOpenTrades in flight
  monitored_markets,  \* table monitored_markets, by market_id
  gamma,              \* data source: each market's closed flag and
                      \* outcome prices (in tenths)
  resolveFlows,       \* resolveExpiredTrades calls in flight
  spread_config,      \* table spread_config: min_spread_threshold (percent)
  scans,              \* scanAll calls in flight: the threshold each one read
  scanned,            \* history: the scan completed at this instant, if any
  providers,          \* which fallback advisors are initialized
  last_analysis,      \* table last_analysis: per market, the ticks since
                      \* last_analyzed_at, or NeverAnalyzed
  cycles,             \* runTradingCycle calls in their loop over the markets
  analysis_logs,      \* table analysis_logs, in insertion order
  trading_enabled,    \* app_config.trading_enabled
  sniped_positions,   \* table sniped_positions, in insertion order
  snipes,             \* snipeTopPositions calls in progress
  closes,             \* checkAndClosePositions calls in progress
  isRunning,          \* per loop: the service's isRunning
  intervalId,         \* per loop: the interval handle the service holds, or 0
  intervals,          \* per loop: the interval timers that are scheduled
  bodies              \* per loop: the loop bodies in progress, by what
                      \* started them (a start call, a timer tick)

riskVars == <<risk_config, budget_tracking, budgetUpdates, trades, aiFlows, lastVal, approvedSum>>

spreadVars == <<paper_trading_mode, spread_opportunities, spread_trades,
                closedAtSource, spreadErrors, pm, exec>>

resolverVars == <<isResolverRunning, resolveInterval, timers, schedCheck, manualCheck>>

aiVars == <<monitored_markets, gamma, resolveFlows>>

scanVars == <<spread_config, scans, scanned>>

snipeVars == <<sniped_positions, snipes, closes>>

advVars == <<providers, last_analysis, cycles, analysis_logs, trading_enabled>>

loopVars == <<isRunning, intervalId, intervals, bodies>>

vars == <<riskVars, aiVars, advVars, spreadVars, scanVars, snipeVars, resolverVars,
          loopVars>>

-----------------------------------------------------------------------------
(* Bounds of the model *)

MaxSize == 4        \* proposed sizes range over 0..MaxSize
MaxTrades == 3      \* AI trades recorded in one run
MaxFlows == 2       \* analyzeAndTrade calls in flight at once
MaxSpreadTrades == 2 \* spread trades recorded in one run
MaxEnd == 2         \* an opportunity's end_date is at most MaxEnd ticks away
MaxTimers == 3      \* timer ids
MaxOpps == 2        \* spread opportunities
MaxChecks == 2      \* ids of the checkOpenTrades calls in flight
MaxResolves == 2    \* resolveExpiredTrades calls in flight at once
MaxIntervals == 2   \* interval timer ids of a loop
MaxBodies == 2      \* bodies of a loop in progress at once

Markets == {"m1", "m2"}
Confidences == {5, 6, 8}

\* The queries validateTrade reads the store with; one of them may throw.
StoreReads == {"getRiskConfig", "getTodayBudget", "getOpenPositions", "getTradesByMarket"}

RiskConfigs ==
  [max_bet_size: {2, 3}, daily_budget: {4}, max_open_positions: {2},
   min_confidence_threshold: {6}, max_market_exposure: {3}]

Proposals == [market_id: Markets, size: 0..MaxSize, confidence: Confidences]

-----------------------------------------------------------------------------
(* Store helpers *)

\* statement.get() on a table holding at most one row
Row(table) == CHOOSE r \in table : TRUE

RECURSIVE SumSizes(_)
SumSizes(s) == IF s = <<>> THEN 0 ELSE Head(s).size + SumSizes(Tail(s))

\* queries.getOpenPositions: WHERE t.status = 'EXECUTED'
getOpenPositions == SelectSeq(trades, LAMBDA t : t.status = "EXECUTED")

\* queries.getTradesByMarket: WHERE t.market_id = ?
getTradesByMarket(marketId) == SelectSeq(trades, LAMBDA t : t.market_id = marketId)

\* today's spent as getTodayBudget (after createTodayBudget) reads it
SpentToday == IF budget_tracking = {} THEN 0 ELSE Row(budget_tracking).spent

-----------------------------------------------------------------------------
(* RiskService *)

\* calculateMarketExposure: the sum of the EXECUTED trades of the market;
\* a failing read is caught and 0 returned.
calculateMarketExposure(marketId, fail) ==
  IF fail = "getTradesByMarket"
    THEN 0
    ELSE SumSizes(SelectSeq(getTradesByMarket(marketId),
                            LAMBDA t : t.status = "EXECUTED"))

Rejected(reason) == [approved |-> FALSE, reason |-> reason]
Approved(size, reason) == [approved |-> TRUE, adjustedSize |-> size, reason |-> reason]

\* validateTrade's check 5, per-market exposure, and the final approval
CheckExposure(proposal, riskConfig, fail) ==
  LET marketExposure == calculateMarketExposure(proposal.market_id, fail)
      allowed == riskConfig.max_market_exposure - marketExposure
      allowedSize == IF allowed > 0 THEN allowed ELSE 0
  IN  IF marketExposure + proposal.size > riskConfig.max_market_exposure
        THEN IF allowedSize <= 0
               THEN Rejected("Market exposure limit reached")
               ELSE Approved(allowedSize, "adjusted to maintain market exposure limit")
        ELSE Approved(proposal.size, "none")

\* validateTrade's check 4, the open positions limit
CheckOpenPositions(proposal, riskConfig, fail) ==
  IF fail = "getOpenPositions"
    THEN Rejected("Risk validation failed")
  ELSE IF Len(getOpenPositions) >= riskConfig.max_open_positions
    THEN Rejected("Maximum open positions reached")
  ELSE CheckExposure(proposal, riskConfig, fail)

\* validateTrade's check 3, the daily budget
CheckDailyBudget(proposal, riskConfig, fail) ==
  IF fail = "getTodayBudget"
    THEN Rejected("Risk validation failed")
  ELSE LET remainingBudget == riskConfig.daily_budget - SpentToday
       IN  IF remainingBudget <= 0
             THEN Rejected("Daily budget exhausted")
           ELSE IF proposal.size > remainingBudget
             THEN Approved(remainingBudget, "adjusted to remaining budget")
           ELSE CheckOpenPositions(proposal, riskConfig, fail)

\* The check with the threshold read as a percentage against a confidence
\* in tenths
BelowThresholdScaleSlip(proposal, riskConfig) ==
  proposal.confidence * 10 < riskConfig.min_confidence_threshold

\* validateTrade's check 1, the confidence threshold
BelowThreshold(proposal, riskConfig) ==
  proposal.confidence < riskConfig.min_confidence_threshold

\* validateTrade: the result returned for a proposal in the current store;
\* fail names the store read that throws ("none": no read throws).
validateTrade(proposal, fail) ==
  IF fail = "getRiskConfig"
    THEN Rejected("Risk validation failed")
  ELSE IF risk_config = {}
    THEN Rejected("Risk configuration not found")
  ELSE LET riskConfig == Row(risk_config)
       IN  IF BelowThreshold(proposal, riskConfig)
             THEN Rejected("Confidence below minimum threshold")
           ELSE IF proposal.size > riskConfig.max_bet_size
             THEN Approved(riskConfig.max_bet_size, "adjusted to maximum")
           ELSE IF proposal.size <= 0
             THEN Rejected("Bet size must be greater than 0")
           ELSE CheckDailyBudget(proposal, riskConfig, fail)

\* validateTrade creates today's budget row when it reaches the budget check
\* and finds none.
ValidateReachesBudget(proposal, fail) ==
  /\ fail \notin {"getRiskConfig", "getTodayBudget"}
  /\ risk_config # {}
  /\ ~BelowThreshold(proposal, Row(risk_config))
  /\ proposal.size <= Row(risk_config).max_bet_size
  /\ proposal.size > 0

\* A row created with an amount already spent
SpentBudgetRow == [spent |-> 1, profit_loss |-> 0, trades_count |-> 0]

\* queries.createTodayBudget
NewBudgetRow == [spent |-> 0, profit_loss |-> 0, trades_count |-> 0]

\* A write of totals computed from a row read as it was created
BudgetOverwritten(size, profitLoss) ==
  {[spent |-> size, profit_loss |-> profitLoss, trades_count |-> 1]}

\* queries.updateBudget on today's row (created first when absent)
BudgetAfter(size, profitLoss) ==
  LET row == IF budget_tracking = {} THEN NewBudgetRow ELSE Row(budget_tracking)
  IN  {[spent |-> row.spent + size,
        profit_loss |-> row.profit_loss + profitLoss,
        trades_count |-> row.trades_count + 1]}

\* updateBudget(size, profitLoss)
updateBudget(size, profitLoss) ==
  /\ budget_tracking' = BudgetAfter(size, profitLoss)
  /\ budgetUpdates' = [spent |-> budgetUpdates.spent + size,
                       profit_loss |-> budgetUpdates.profit_loss + profitLoss,
                       calls |-> budgetUpdates.calls + 1]

-----------------------------------------------------------------------------
(* TradingService: the BUY path of analyzeAndTrade *)

\* Whether the read that throws is one validateTrade makes for this proposal:
\* a check that returns early skips the reads after it.
ReadFails(proposal, fail) ==
  \/ fail = "getRiskConfig"
  \/ /\ fail = "getTodayBudget"
     /\ ValidateReachesBudget(proposal, "none")
  \/ /\ fail \in {"getOpenPositions", "getTradesByMarket"}
     /\ ValidateReachesBudget(proposal, "none")
     /\ Row(risk_config).daily_budget - SpentToday > 0
     /\ proposal.size <= Row(risk_config).daily_budget - SpentToday
     /\ \/ fail = "getOpenPositions"
        \/ Len(getOpenPositions) < Row(risk_config).max_open_positions

\* What validateTrade saw, kept with its result
Validation(proposal, fail) ==
  [proposal |-> proposal,
   fail |-> fail,
   readFailed |-> ReadFails(proposal, fail),
   result |-> validateTrade(proposal, fail),
   configured |-> risk_config # {},
   remaining |-> IF risk_config = {} THEN 0
                 ELSE Row(risk_config).daily_budget - SpentToday,
   open |-> Len(getOpenPositions),
   exposure |-> calculateMarketExposure(proposal.market_id, "none")]

\* analyzeAndTrade from the validation on: validateTrade, and when it
\* approves, tradeSize = adjustedSize || suggested_size is carried into
\* executeTrade, which waits for the prices before it records and debits.
\* adjustedSize keeps the size the gate returned (history).
ValidateAndCarry(proposal, fail, cycle) ==
  LET v == Validation(proposal, fail)
      tradeSize == IF v.result.adjustedSize # 0 THEN v.result.adjustedSize
                   ELSE proposal.size
  IN  /\ Len(aiFlows) < MaxFlows
      /\ Len(trades) + Len(aiFlows) < MaxTrades
      /\ lastVal' = {v}
      /\ UNCHANGED budgetUpdates
      /\ budget_tracking' =
           IF ValidateReachesBudget(proposal, fail) /\ budget_tracking = {}
             THEN {NewBudgetRow} ELSE budget_tracking
      /\ aiFlows' = IF v.result.approved
                      THEN Append(aiFlows, [market_id |-> proposal.market_id,
                                            size |-> tradeSize,
                                            adjustedSize |-> v.result.adjustedSize,
                                            cycle |-> cycle])
                      ELSE aiFlows

\* analyzeAndTrade from the validation on, for a proposal the advisor made
AnalyzeAndTrade(proposal, fail) ==
      /\ ValidateAndCarry(proposal, fail, 0)
      /\ UNCHANGED <<risk_config, trades, approvedSum, aiVars, advVars, scanVars, snipeVars, spreadVars,
                     resolverVars, loopVars>>

Range(s) == {s[i] : i \in DOMAIN s}

RemoveAt(s, i) == SubSeq(s, 1, i - 1) \o SubSeq(s, i + 1, Len(s))

NoOutcome == "none"

\* queries.addTrade for a paper trade: EXECUTED, not yet resolved.  The
\* price is the fill price in tenths (0: no price data); left_open tells
\* that a resolution attempt has left the trade open, and sell_order_id
\* which order executeSell made for it (history).
NewTrade(marketId, outcome, size, price) ==
  [market_id |-> marketId, outcome |-> outcome, size |-> size,
   price |-> price, status |-> "EXECUTED", is_paper_trade |-> TRUE,
   order_id |-> "PAPER", sell_order_id |-> "none",
   resolved_outcome |-> NoOutcome, pnl |-> 0, left_open |-> FALSE]

\* queries.addTrade for an order placed with the exchange: PENDING, with no
\* fill price
LiveTrade(marketId, outcome, size) ==
  [NewTrade(marketId, outcome, size, 0) EXCEPT
     !.status = "PENDING", !.is_paper_trade = FALSE, !.order_id = "LIVE"]

\* The flag as the store holds it
isPaperTradingModeAsStored == paper_trading_mode

\* isPaperTradingMode: appConfig?.paper_trading_mode || true
isPaperTradingMode == paper_trading_mode \/ TRUE

\* executeTrade after its await: isPaperTradingMode() is always true, so the
\* trade is recorded EXECUTED as a paper trade and its size debited.  The
\* decision is taken to be BUY_YES, filled at 0.5.
ExecuteTrade(i) ==
  LET flow == aiFlows[i]
  IN  /\ trades' = Append(trades,
                          IF isPaperTradingMode
                            THEN NewTrade(flow.market_id, "YES", flow.size, 5)
                            ELSE LiveTrade(flow.market_id, "YES", flow.size))
      /\ updateBudget(flow.size, 0)
      /\ aiFlows' = RemoveAt(aiFlows, i)
      /\ approvedSum' = approvedSum + flow.size
      /\ lastVal' = {}
      /\ UNCHANGED <<risk_config, aiVars, advVars, scanVars, snipeVars, spreadVars, resolverVars, loopVars>>

-----------------------------------------------------------------------------
(* TradingService: the cycle over the monitored markets and the advisory
   part of analyzeAndTrade *)

\* last_analysis has no row for the market
NeverAnalyzed == -1

\* appConfig?.analysis_interval_minutes || 5, in ticks
Cooldown == 30

MaxCycles == 2
MaxLogs == 2

\* The advisors in the order analyzeAndTrade consults them
Advisors == <<"Claude", "Gemini", "Local LLM">>

\* What an advisor may decide besides SELL (for SELL see AdvisorSells)
Decisions == {"HOLD", "BUY_YES"}

\* let currentPosition = undefined
NoPosition == 0

\* Current prices of the held outcome, in tenths, at which a position is sold
SellPrices == {5, 10}

\* queries.getOpenPositionForMarket: the newest EXECUTED trade of the market
getOpenPositionForMarket(marketId) ==
  LET held == {i \in DOMAIN trades : /\ trades[i].market_id = marketId
                                     /\ trades[i].status = "EXECUTED"}
  IN  IF held = {} THEN NoPosition
      ELSE CHOOSE i \in held : \A j \in held : j <= i

\* The proposal of a BUY decision: suggested_size 2 at confidence 0.8
Suggested(marketId) == [market_id |-> marketId, size |-> 2, confidence |-> 8]

\* shouldAnalyzeMarket: a market never analyzed, or analyzed at least the
\* cooldown ago; a read that throws allows the analysis
shouldAnalyzeMarket(marketId, readFails) ==
  \/ readFails
  \/ last_analysis[marketId] = NeverAnalyzed
  \/ last_analysis[marketId] >= Cooldown

\* The fallback after an advisor failed without its initialization tests
NextAdvisorUntested(failed) ==
  IF failed = "Claude" THEN "Gemini"
  ELSE IF failed = "Gemini" THEN "Local LLM"
  ELSE "none"

\* The advisor consulted after one has failed: Gemini after Claude when it
\* is initialized, the local model after either when it is initialized
NextAdvisor(failed) ==
  IF failed = "Claude" /\ providers.gemini THEN "Gemini"
  ELSE IF failed # "Local LLM" /\ providers.local THEN "Local LLM"
  ELSE "none"

CycleIds == 1..MaxCycles

\* The cycle's loop moves to its next market, or the cycle ends.  prev
\* tells how the call for the market before ended (history).
NextMarket(cycle, prev) ==
  IF Len(cycle.markets) > 1
    THEN {[cycle EXCEPT !.markets = Tail(@), !.pc = "cooldown",
                        !.consulted = <<>>, !.early = FALSE, !.prev = prev,
                        !.malformed = {}, !.position = NoPosition]}
    ELSE {}

\* The cycle after a failure that nothing inside the loop catches
CycleAbandoned(cycle, prev) == {}

\* The cycle after a failure thrown by analyzeAndTrade: the handler inside
\* the loop catches it and the loop goes on
CycleAfterFailure(cycle, prev) == NextMarket(cycle, prev)

Others(cycle) == cycles \ {cycle}

\* updatePriceHistory has returned, having caught and logged whatever
\* failed in it, and analyzeAndTrade checks the cooldown: a market in its
\* cooldown is passed over, otherwise the market's data are fetched.
CheckCooldown(cycle, historyFails, readFails) ==
  /\ cycle \in cycles
  /\ cycle.pc = "cooldown"
  /\ cycles' = Others(cycle) \cup
       (IF shouldAnalyzeMarket(Head(cycle.markets), readFails)
          THEN {[cycle EXCEPT !.pc = "fetch"]}
          ELSE {[cycle EXCEPT !.pc = "sleep"]})
  /\ UNCHANGED <<providers, last_analysis, analysis_logs, trading_enabled>>
  /\ UNCHANGED <<riskVars, aiVars, scanVars, snipeVars, spreadVars, resolverVars, loopVars>>

\* fetchMarketData returns: without data analyzeAndTrade returns, with data
\* (current_position is the market's open position, if any) the first
\* advisor is consulted.  early tells that the market was
\* analyzed less than the cooldown ago (history).
FetchMarketData(cycle, hasData) ==
  /\ cycle \in cycles
  /\ cycle.pc = "fetch"
  /\ hasData =>
       Len(analysis_logs)
         + Cardinality({c \in cycles : c.pc \in Range(Advisors)}) < MaxLogs
  /\ cycles' = Others(cycle) \cup
       (IF hasData
          THEN {[cycle EXCEPT
                   !.pc = Advisors[1],
                   !.position = getOpenPositionForMarket(Head(cycle.markets)),
                   !.early = /\ last_analysis[Head(cycle.markets)] # NeverAnalyzed
                             /\ last_analysis[Head(cycle.markets)] < Cooldown]}
          ELSE {[cycle EXCEPT !.pc = "sleep"]})
  /\ UNCHANGED <<providers, last_analysis, analysis_logs, trading_enabled>>
  /\ UNCHANGED <<riskVars, aiVars, scanVars, snipeVars, spreadVars, resolverVars, loopVars>>

\* What an advisor's service may get back: a request that fails, a text
\* that is not JSON or lacks decision, confidence or reasoning, or a valid
\* analysis
Responses == {"error", "malformed", "valid"}

Threw == [threw |-> TRUE, decision |-> "none", confidence |-> 0]

\* parseAnalysisResponse: ClaudeService throws on a text it cannot parse or
\* validate; GeminiService and LocalLLMService return HOLD with confidence 0
parseAnalysisResponse(advisor, response, decision) ==
  IF response = "valid"
    THEN [threw |-> FALSE, decision |-> decision, confidence |-> 8]
  ELSE IF advisor = "Claude" THEN Threw
  ELSE [threw |-> FALSE, decision |-> "HOLD", confidence |-> 0]

\* analyzeMarket of the advisor's service: a failed request is thrown, a
\* text received is parsed
analyzeMarket(advisor, response, decision) ==
  IF response = "error" THEN Threw
  ELSE parseAnalysisResponse(advisor, response, decision)

\* The advisor consulted answers.  malformed collects the advisors whose
\* text was malformed in this call (history).  A failure leads to the next advisor or,
\* when none is left, is thrown to the loop of runTradingCycle.  A decision
\* is logged and last_analysis updated; HOLD ends the call, BUY goes on to
\* validateTrade and, when approved, to executeTrade.
AdvisorAnswers(cycle, response, decision) ==
  /\ cycle \in cycles
  /\ cycle.pc \in Range(Advisors)
  /\ LET marketId == Head(cycle.markets)
         analysis == analyzeMarket(cycle.pc, response, decision)
         ok == ~analysis.threw
         consulted == Append(cycle.consulted, <<cycle.pc, ok>>)
         malformed == cycle.malformed \cup
                        (IF response = "malformed" THEN {cycle.pc} ELSE {})
     IN  IF ~ok
           THEN /\ cycles' = Others(cycle) \cup
                     (IF NextAdvisor(cycle.pc) # "none"
                        THEN {[cycle EXCEPT !.pc = NextAdvisor(cycle.pc),
                                            !.consulted = consulted,
                                            !.malformed = malformed]}
                        ELSE CycleAfterFailure(cycle, "All AI providers failed"))
                /\ UNCHANGED <<last_analysis, analysis_logs, riskVars>>
           ELSE /\ analysis_logs' =
                     Append(analysis_logs,
                            [market_id |-> marketId, aiProvider |-> cycle.pc,
                             decision |-> analysis.decision,
                             confidence |-> analysis.confidence,
                             consulted |-> consulted])
                /\ last_analysis' = [last_analysis EXCEPT ![marketId] = 0]
                /\ IF analysis.decision = "HOLD"
                     THEN /\ cycles' = Others(cycle) \cup
                               {[cycle EXCEPT !.pc = "sleep", !.malformed = malformed]}
                          /\ UNCHANGED riskVars
                     ELSE /\ ValidateAndCarry(Suggested(marketId), "none", cycle.id)
                          /\ cycles' = Others(cycle) \cup
                               {[cycle EXCEPT !.pc = "trade", !.malformed = malformed]}
                          /\ UNCHANGED <<risk_config, trades, approvedSum>>
  /\ UNCHANGED <<providers, trading_enabled>>
  /\ UNCHANGED <<aiVars, scanVars, snipeVars, spreadVars, resolverVars, loopVars>>

\* analyzeAndTrade has returned (its trade, if any, is recorded) and the
\* sleep between markets is over
Sleep(cycle) ==
  /\ cycle \in cycles
  /\ \/ cycle.pc = "sleep"
     \/ /\ cycle.pc = "trade"
        /\ \A i \in DOMAIN aiFlows : aiFlows[i].cycle # cycle.id
  /\ cycles' = Others(cycle) \cup NextMarket(cycle, "returned")
  /\ UNCHANGED <<providers, last_analysis, analysis_logs, trading_enabled>>
  /\ UNCHANGED <<riskVars, aiVars, scanVars, snipeVars, spreadVars, resolverVars, loopVars>>

\* realizedPnl = (size / entry_price) * sellPrice - size; with no entry
\* price there are no shares
SellPnl(position, sellPrice) ==
  IF position.price > 0
    THEN (position.size * sellPrice) \div position.price - position.size
    ELSE 0 - position.size

\* executeSell: isPaperTradingMode() is always true, so nothing is awaited.
\* With no current_position in the market data it returns.  Otherwise the
\* P&L is computed from the position the market data hold, the trade that
\* is now the market's open position, if any, is set RESOLVED with it, and
\* the P&L is credited.
executeSell(marketId, position, sellPrice) ==
  IF position = NoPosition
    THEN UNCHANGED <<trades, budget_tracking, budgetUpdates>>
    ELSE LET realizedPnl == SellPnl(trades[position], sellPrice)
             existingTrade == getOpenPositionForMarket(marketId)
         IN  /\ trades' =
                  IF existingTrade # NoPosition
                    THEN [trades EXCEPT ![existingTrade].status = "RESOLVED",
                                        ![existingTrade].resolved_outcome = "SOLD",
                                        ![existingTrade].pnl = realizedPnl,
                                        ![existingTrade].sell_order_id =
                                           IF isPaperTradingMode THEN "PAPER_SELL"
                                           ELSE "LIVE"]
                    ELSE trades
             /\ updateBudget(0, realizedPnl)

\* The advisor consulted answers with a valid analysis that decides SELL:
\* the analysis is logged, last_analysis updated and executeSell run at the
\* current price of the held outcome.
AdvisorSells(cycle, sellPrice) ==
  /\ cycle \in cycles
  /\ cycle.pc \in Range(Advisors)
  /\ LET marketId == Head(cycle.markets)
     IN  /\ analysis_logs' =
              Append(analysis_logs,
                     [market_id |-> marketId, aiProvider |-> cycle.pc,
                      decision |-> "SELL", confidence |-> 8,
                      consulted |-> Append(cycle.consulted, <<cycle.pc, TRUE>>)])
         /\ last_analysis' = [last_analysis EXCEPT ![marketId] = 0]
         /\ executeSell(marketId, cycle.position, sellPrice)
  /\ cycles' = Others(cycle) \cup {[cycle EXCEPT !.pc = "sleep"]}
  /\ UNCHANGED <<risk_config, aiFlows, lastVal, approvedSum>>
  /\ UNCHANGED <<providers, trading_enabled>>
  /\ UNCHANGED <<aiVars, scanVars, snipeVars, spreadVars, resolverVars, loopVars>>

\* The row executeTrade's handler writes for an execution that failed
FailedTrade(marketId, size) ==
  [NewTrade(marketId, "YES", size, 0) EXCEPT !.status = "FAILED"]

\* executeTrade after its await, when the write of the trade throws: the
\* handler records a FAILED row (recorded) or fails at that too, nothing
\* is debited, and the error is thrown through analyzeAndTrade to the loop
\* of runTradingCycle, which goes on with the next market.
ExecuteTradeFails(i, recorded) ==
  LET flow == aiFlows[i]
      thrownTo == {c \in cycles : c.id = flow.cycle}
  IN  /\ trades' = IF recorded
                     THEN Append(trades, FailedTrade(flow.market_id, flow.size))
                     ELSE trades
      /\ aiFlows' = RemoveAt(aiFlows, i)
      /\ lastVal' = {}
      /\ cycles' = (cycles \ thrownTo) \cup
                     UNION {CycleAfterFailure(c, "execution failed") : c \in thrownTo}
      /\ UNCHANGED <<risk_config, budget_tracking, budgetUpdates, approvedSum>>
      /\ UNCHANGED <<providers, last_analysis, analysis_logs, trading_enabled>>
      /\ UNCHANGED <<aiVars, scanVars, snipeVars, spreadVars, resolverVars, loopVars>>

-----------------------------------------------------------------------------
(* TradingService.resolveExpiredTrades *)

\* Outcome prices [yes, no] in tenths, as the data source may give them
OutcomePrices == {<<10, 0>>, <<0, 10>>, <<5, 5>>}

\* The winner read from the final prices with a threshold of one half
resolvedOutcomeByMajority(prices) ==
  IF prices[1] >= 5 THEN "YES" ELSE IF prices[2] >= 5 THEN "NO" ELSE NoOutcome

\* if (yesPrice > 0.9) 'YES' else if (noPrice > 0.9) 'NO', else null
resolvedOutcome(prices) ==
  IF prices[1] > 9 THEN "YES" ELSE IF prices[2] > 9 THEN "NO" ELSE NoOutcome

\* pnl: shares = size / price pay $1 each if won; with no price data a win
\* breaks even
Pnl(trade, resolved) ==
  IF trade.price > 0
    THEN IF trade.outcome = resolved
           THEN (trade.size * 10) \div trade.price - trade.size
           ELSE 0 - trade.size
    ELSE IF trade.outcome = resolved THEN 0 ELSE 0 - trade.size

\* queries.getUnresolvedTrades: the EXECUTED trades of markets whose
\* end_date has passed (a market without end_date never qualifies)
getUnresolvedTrades ==
  {i \in DOMAIN trades :
     /\ trades[i].status = "EXECUTED"
     /\ monitored_markets[trades[i].market_id].end_date = 0}

RECURSIVE Ascending(_)
Ascending(S) ==
  IF S = {} THEN <<>>
  ELSE LET low == CHOOSE x \in S : \A y \in S : x <= y
       IN  <<low>> \o Ascending(S \ {low})

ResolveIds == 1..MaxResolves

\* deactivateExpiredMarkets
deactivateExpiredMarkets ==
  [m \in DOMAIN monitored_markets |->
     IF monitored_markets[m].is_active /\ monitored_markets[m].end_date = 0
       THEN [monitored_markets[m] EXCEPT !.is_active = FALSE]
       ELSE monitored_markets[m]]

\* The runs of resolveExpiredTrades in flight or awaited by a cycle
RunsInUse == {f.run : f \in resolveFlows} \cup {c.run : c \in cycles}

\* resolveExpiredTrades up to its first await, as run n: the expired
\* markets are deactivated and the unresolved trades read once; with none
\* it returns (n = 0).
ResolveBegins(n) ==
  /\ monitored_markets' = deactivateExpiredMarkets
  /\ IF getUnresolvedTrades = {}
       THEN /\ n = 0
            /\ UNCHANGED resolveFlows
       ELSE /\ n \in ResolveIds \ RunsInUse
            /\ \A k \in ResolveIds \ RunsInUse : n <= k
            /\ resolveFlows' = resolveFlows \cup
                 {[run |-> n,
                   failed |-> {},
                   queue |-> [k \in DOMAIN Ascending(getUnresolvedTrades) |->
                                [id |-> Ascending(getUnresolvedTrades)[k],
                                 trade |-> trades[Ascending(getUnresolvedTrades)[k]]]]]}

\* resolveExpiredTrades up to its first await
ResolveExpiredTrades ==
  /\ \E n \in {0} \cup ResolveIds :
       /\ ResolveBegins(n)
       /\ n = 0 => monitored_markets' # monitored_markets
  /\ UNCHANGED <<riskVars, gamma, spreadVars, scanVars, snipeVars, advVars, resolverVars, loopVars>>

\* The run after the trade at the head of its snapshot was handled, and also
\* after handling it failed: the handler inside the loop catches the failure
\* and the loop goes on.  failed collects the trades it failed for (history).
FlowAfterTrade(flow, response) ==
  IF Len(flow.queue) > 1
    THEN {[flow EXCEPT !.queue = Tail(@),
                       !.failed = IF response = "error"
                                    THEN @ \cup {Head(flow.queue).id} ELSE @]}
    ELSE {}

\* resolveExpiredTrades: getMarketData answers for the next trade of the
\* snapshot, or fails.  The trade is resolved only when the market is closed
\* and a price tells the winner; it is left as it is otherwise.  After the
\* last trade the call returns.
ResolveStep(run, response) ==
  \E flow \in resolveFlows :
    LET item == Head(flow.queue)
        data == gamma[item.trade.market_id]
        winner == resolvedOutcome(data.prices)
        resolves == response = "data" /\ data.closed /\ winner # NoOutcome
        pnl == Pnl(item.trade, winner)
    IN  /\ flow.run = run
        /\ IF resolves
             THEN /\ trades' = [trades EXCEPT ![item.id].status = "RESOLVED",
                                              ![item.id].resolved_outcome = winner,
                                              ![item.id].pnl = pnl]
                  /\ updateBudget(0, pnl)
             ELSE /\ trades' = [trades EXCEPT ![item.id].left_open =
                                                @ \/ trades[item.id].status = "EXECUTED"]
                  /\ UNCHANGED <<budget_tracking, budgetUpdates>>
        /\ resolveFlows' = (resolveFlows \ {flow}) \cup FlowAfterTrade(flow, response)
        /\ UNCHANGED <<risk_config, aiFlows, lastVal, approvedSum, scanVars, snipeVars, advVars,
                       monitored_markets, gamma, spreadVars, resolverVars,
                       loopVars>>

\* The data source starts to report a market closed, with the prices it
\* then has, or gives a closed market new prices: a closed market stays
\* closed, and prices that tell the winner are final.
GammaCloses(marketId, prices) ==
  /\ gamma[marketId] # [closed |-> TRUE, prices |-> prices]
  /\ gamma[marketId].closed => resolvedOutcome(gamma[marketId].prices) = NoOutcome
  /\ gamma' = [gamma EXCEPT ![marketId] = [closed |-> TRUE, prices |-> prices]]
  /\ UNCHANGED <<riskVars, monitored_markets, resolveFlows, spreadVars, scanVars, snipeVars, advVars,
                 resolverVars, loopVars>>

\* The order in which the monitored markets are read
MarketOrder == <<"m1", "m2">>

\* queries.getMonitoredMarkets: WHERE is_active = 1
getMonitoredMarkets ==
  SelectSeq(MarketOrder, LAMBDA m : monitored_markets[m].is_active)

\* A cycle that goes on without reading trading_enabled
isTradingEnabledUnread(readFails) == TRUE

\* isTradingEnabled: trading_enabled of the store, false when the read throws
isTradingEnabled(readFails) == ~readFails /\ trading_enabled

\* runTradingCycle up to the first await of resolveExpiredTrades, which it
\* calls first.  The interval timer starts a cycle whether or not an earlier
\* one has finished.
RunTradingCycle ==
  /\ Cardinality(cycles) < MaxCycles
  /\ \E n \in {0} \cup ResolveIds :
       /\ ResolveBegins(n)
       /\ cycles' = cycles \cup
            {[id |-> CHOOSE i \in CycleIds : \A c \in cycles : c.id # i,
              run |-> n, markets |-> <<>>, pc |-> "resolve", consulted |-> <<>>,
              early |-> FALSE, prev |-> "none", malformed |-> {},
              position |-> NoPosition]}
  /\ UNCHANGED <<providers, last_analysis, analysis_logs, trading_enabled>>
  /\ UNCHANGED <<riskVars, gamma, scanVars, snipeVars, spreadVars, resolverVars, loopVars>>

\* runTradingCycle after resolveExpiredTrades has returned: with trading
\* disabled the cycle returns, otherwise the monitored markets are read and
\* the loop over them begins.
ResolveReturns(cycle, readFails) ==
  /\ cycle \in cycles
  /\ cycle.pc = "resolve"
  /\ \A flow \in resolveFlows : flow.run # cycle.run
  /\ cycles' = Others(cycle) \cup
       (IF isTradingEnabled(readFails) /\ getMonitoredMarkets # <<>>
          THEN {[cycle EXCEPT !.run = 0, !.markets = getMonitoredMarkets,
                              !.pc = "cooldown"]}
          ELSE {})
  /\ UNCHANGED <<providers, last_analysis, analysis_logs, trading_enabled>>
  /\ UNCHANGED <<riskVars, aiVars, scanVars, snipeVars, spreadVars, resolverVars, loopVars>>

\* PUT /api/config/app: trading_enabled is set in the store
SetTradingEnabled(enabled) ==
  /\ enabled # trading_enabled
  /\ trading_enabled' = enabled
  /\ UNCHANGED <<providers, last_analysis, cycles, analysis_logs>>
  /\ UNCHANGED <<riskVars, aiVars, scanVars, snipeVars, spreadVars, resolverVars, loopVars>>

-----------------------------------------------------------------------------
(* SpreadService: the resolution scheduler *)

\* end_date of a row that has none (opp.end_date || null)
NoEndDate == -1

\* Delays in ticks of 10 s
BUFFER == 6         \* the 60_000 ms added to the earliest end_date
MIN_DELAY == 1      \* the 10_000 ms floor of the delay
RETRY_MS == 30      \* 5 * 60_000 ms

Max(a, b) == IF a >= b THEN a ELSE b

Min(S) == CHOOSE x \in S : \A y \in S : x <= y

\* queries.getOpenSpreadTrades on a table value: the ids of the OPEN rows
OpenIds(tbl) == {i \in DOMAIN tbl : tbl[i].status = "OPEN"}

\* ... ORDER BY created_at DESC: the newest row first
RECURSIVE Descending(_)
Descending(S) ==
  IF S = {} THEN <<>>
  ELSE LET top == CHOOSE x \in S : \A y \in S : y <= x
       IN  <<top>> \o Descending(S \ {top})

\* A trade counts as past due when it has no end_date or its end_date is
\* not in the future.
PastDue(row) == row.end_date = NoEndDate \/ row.end_date = 0

\* The resolver's fields as one value, so that a handler's calls compose
Resolver ==
  [isResolverRunning |-> isResolverRunning, resolveInterval |-> resolveInterval,
   timers |-> timers, schedCheck |-> schedCheck]

TimerIds == 1..MaxTimers

\* setTimeout: a handle that is no pending timer's and not the one held
NewTimer(R) ==
  CHOOSE i \in TimerIds :
    /\ i # R.resolveInterval
    /\ \A t \in R.timers : t.id # i
    /\ \A j \in TimerIds :
         (j # R.resolveInterval /\ \A t \in R.timers : t.id # j) => i <= j

SetTimeout(R, delay) ==
  LET id == NewTimer(R)
  IN  [R EXCEPT !.timers = @ \cup {[id |-> id, delay |-> delay,
                                    retry |-> delay = RETRY_MS]},
                !.resolveInterval = id]

\* clearTimeout(this.resolveInterval); this.resolveInterval = null
ClearTimeout(R) ==
  [R EXCEPT !.timers = {t \in @ : t.id # R.resolveInterval},
            !.resolveInterval = 0]

\* stopResolver
stopResolver(R) ==
  [(IF R.resolveInterval # 0 THEN ClearTimeout(R) ELSE R)
     EXCEPT !.isResolverRunning = FALSE]

\* CheckQueue when the due-date filter lets every open trade through
CheckQueueUnfiltered(tbl, forceAll) == Descending(OpenIds(tbl))

\* checkOpenTrades up to its first await: the open trades are read once, and
\* unless forced those whose end_date is in the future are skipped; the
\* others are queried one after the other.
CheckQueue(tbl, forceAll) ==
  SelectSeq(Descending(OpenIds(tbl)),
            LAMBDA i : forceAll \/ PastDue(tbl[i]))

\* A checkOpenTrades call in flight: its snapshot of the trades to query,
\* and the open trades it skips (skipped++).
\* check tells the calls in flight apart.
CheckFlow(tbl, forceAll, n) ==
  [check |-> n,
   forceAll |-> forceAll,
   skipped |-> {i \in OpenIds(tbl) :
                  \A k \in DOMAIN CheckQueue(tbl, forceAll) :
                    CheckQueue(tbl, forceAll)[k] # i},
   queue |-> [k \in DOMAIN CheckQueue(tbl, forceAll) |->
                [id |-> CheckQueue(tbl, forceAll)[k],
                 expected_profit |-> tbl[CheckQueue(tbl, forceAll)[k]].expected_profit]]]

CheckIds == 1..MaxChecks

NewCheck(flows) == Min({n \in CheckIds : \A f \in flows : f.check # n})

\* A checkOpenTrades call begins next to those in flight
BeginCheck(flows, tbl, forceAll) ==
  flows \cup {CheckFlow(tbl, forceAll, NewCheck(flows))}

\* scheduleNextCheck: the pending timer is cleared; with no open trade the
\* resolver stops; with a past-due or dateless trade the check starts at
\* once (its queue is then not empty); otherwise a timer is set for the
\* earliest future end_date plus the buffer.
scheduleNextCheck(R, tbl) ==
  LET R1 == IF R.resolveInterval # 0 THEN ClearTimeout(R) ELSE R
      open == OpenIds(tbl)
      future == {tbl[i].end_date : i \in {j \in open : ~PastDue(tbl[j])}}
  IN  IF open = {} THEN stopResolver(R1)
      ELSE IF \E i \in open : PastDue(tbl[i])
        THEN [R1 EXCEPT !.schedCheck = BeginCheck(@, tbl, FALSE)]
      ELSE SetTimeout(R1, Max(Min(future) + BUFFER, MIN_DELAY))

\* AfterCheck without the retry: nothing is scheduled while a past-due trade
\* is still open
AfterCheckNoRetry(R, tbl) ==
  LET remaining == OpenIds(tbl)
  IN  IF remaining = {} THEN stopResolver(R)
      ELSE IF \E i \in remaining : PastDue(tbl[i])
        THEN R
      ELSE scheduleNextCheck(R, tbl)

\* runCheckAndReschedule after its checkOpenTrades returned: stop when no
\* trade is open, retry in 5 minutes while a past-due trade is still open,
\* schedule against the end dates otherwise.
AfterCheck(R, tbl) ==
  LET remaining == OpenIds(tbl)
  IN  IF remaining = {} THEN stopResolver(R)
      ELSE IF \E i \in remaining : PastDue(tbl[i])
        THEN SetTimeout(R, RETRY_MS)
      ELSE scheduleNextCheck(R, tbl)

\* runCheckAndReschedule: checkOpenTrades() runs to its first await; when it
\* has nothing to query it returns at once and the rescheduling follows.
runCheckAndReschedule(R, tbl) ==
  IF CheckQueue(tbl, FALSE) = <<>>
    THEN AfterCheck(R, tbl)
    ELSE [R EXCEPT !.schedCheck = BeginCheck(@, tbl, FALSE)]

\* startResolver without its guard on isResolverRunning
startResolverUnguarded(R, tbl) ==
  IF OpenIds(tbl) = {} THEN R
  ELSE scheduleNextCheck([R EXCEPT !.isResolverRunning = TRUE], tbl)

\* startResolver: a no-op when already running or when no trade is open
startResolver(R, tbl) ==
  IF R.isResolverRunning THEN R
  ELSE IF OpenIds(tbl) = {} THEN R
  ELSE scheduleNextCheck([R EXCEPT !.isResolverRunning = TRUE], tbl)

\* The resolver's fields take the values of R
ResolverBecomes(R) ==
  /\ isResolverRunning' = R.isResolverRunning
  /\ resolveInterval' = R.resolveInterval
  /\ timers' = R.timers
  /\ schedCheck' = R.schedCheck

-----------------------------------------------------------------------------
(* PolymarketService *)

\* isInitialized(): initialized && client !== null (initialized is set by
\* every initialize(), which the server runs at start)
pmIsInitialized(p) == p.client

\* isPaperTrading(): isPaperMode || !client
pmIsPaperTrading(p) == p.isPaperMode \/ ~p.client

\* initialize(): the paper flag is cached from the store; the client is
\* built when the credentials are there
pmInitialize(p) ==
  [p EXCEPT !.isPaperMode = paper_trading_mode,
            !.client = p.client \/ p.hasCredentials]

-----------------------------------------------------------------------------
(* SpreadService.executeSpread *)

Investments == {2}
OppIds == 1..MaxOpps

\* expectedProfit = spread_pct * totalInvestment / (1 + spread_pct), with
\* spread_pct in percent
ExpectedProfit(opp, totalInvestment) ==
  (opp.spread_pct * totalInvestment) \div (100 + opp.spread_pct)

PaperOrderIds(n) == [k \in 1..n |-> "PAPER_SPREAD"]

\* queries.addSpreadTrade: the row recorded, OPEN.  live counts the orders
\* that reached the exchange (history).
NewSpreadTrade(opp, totalInvestment, orderIds, isRealTrade, live) ==
  [opportunity_id |-> opp.id,
   opportunity_type |-> opp.opportunity_type,
   end_date |-> opp.end_date,
   expected_profit |-> ExpectedProfit(opp, totalInvestment),
   size_per_outcome |-> totalInvestment \div opp.num_outcomes,
   num_outcomes |-> opp.num_outcomes,
   total_invested |-> totalInvestment,
   order_ids |-> IF ~isRealTrade THEN PaperOrderIds(opp.num_outcomes) ELSE orderIds,
   status |-> "OPEN",
   is_paper_trade |-> ~isRealTrade,
   realized_pnl |-> 0,
   live_orders |-> live,
   credited |-> 0]

\* A recording that leaves the resolver as it is
RecordWithoutResolver(opp, totalInvestment, orderIds, isRealTrade, live) ==
  /\ spread_trades' =
       Append(spread_trades,
              NewSpreadTrade(opp, totalInvestment, orderIds, isRealTrade, live))
  /\ updateBudget(totalInvestment, 0)
  /\ UNCHANGED <<isResolverRunning, resolveInterval, timers, schedCheck>>
  /\ exec' = {}

\* executeSpread from addSpreadTrade on: the trade is recorded, the
\* investment debited, the resolver started.
RecordSpreadTrade(opp, totalInvestment, orderIds, isRealTrade, live) ==
  LET tbl == Append(spread_trades,
                    NewSpreadTrade(opp, totalInvestment, orderIds, isRealTrade, live))
  IN  /\ spread_trades' = tbl
      /\ updateBudget(totalInvestment, 0)
      /\ ResolverBecomes(startResolver(Resolver, tbl))
      /\ exec' = {}

\* Every opportunity of the table, active or not
getSpreadOpportunities == DOMAIN spread_opportunities

\* queries.getActiveSpreadOpportunities: WHERE is_active = 1
getActiveSpreadOpportunities ==
  {o \in DOMAIN spread_opportunities : spread_opportunities[o].is_active}

\* executeSpread up to its first await.  In paper mode there is none before
\* the trade is recorded; otherwise the service is initialised when it has
\* no client, and the market or the event is fetched.
ExecuteSpread(opportunityId, totalInvestment) ==
  /\ exec = {}
  /\ Len(spread_trades) < MaxSpreadTrades
  /\ opportunityId \in getActiveSpreadOpportunities
  /\ LET opp == spread_opportunities[opportunityId]
     IN  IF paper_trading_mode
           THEN /\ RecordSpreadTrade(opp, totalInvestment, <<>>, FALSE, 0)
                /\ UNCHANGED pm
           ELSE /\ pm' = IF pmIsInitialized(pm) THEN pm ELSE pmInitialize(pm)
                /\ exec' = {[opp |-> opp, totalInvestment |-> totalInvestment,
                             pc |-> "fetch", orderIds |-> <<>>, live |-> 0,
                             markets |-> 0]}
                /\ UNCHANGED <<spread_trades, budget_tracking, budgetUpdates, resolverVars>>
  /\ UNCHANGED <<risk_config, trades, aiFlows, lastVal, approvedSum, aiVars, advVars, scanVars, snipeVars,
                 paper_trading_mode, spread_opportunities, closedAtSource, spreadErrors,
                 manualCheck>>
  /\ UNCHANGED loopVars

\* executeSpread with an id that is not among the active opportunities:
\* 'Opportunity not found or no longer active' is thrown before anything
\* is done.
ExecuteSpreadRejected(opportunityId) ==
  /\ opportunityId \notin getActiveSpreadOpportunities
  /\ opportunityId \notin spreadErrors
  /\ spreadErrors' = spreadErrors \cup {opportunityId}
  /\ UNCHANGED <<paper_trading_mode, spread_opportunities, spread_trades,
                 closedAtSource, pm, exec>>
  /\ UNCHANGED <<riskVars, aiVars, advVars, scanVars, snipeVars, resolverVars, loopVars>>

\* The fetch of the market (SINGLE) or event (MULTI) returns.  An error is
\* caught and the trade recorded as paper; a response without the market or
\* its token ids places no order; otherwise the orders follow.
ExecFetched(response) ==
  /\ exec # {}
  /\ Row(exec).pc = "fetch"
  /\ LET e == Row(exec)
     IN  IF response = "ok"
           THEN /\ exec' = {[e EXCEPT !.pc = "order", !.markets = e.opp.num_outcomes]}
                /\ UNCHANGED <<spread_trades, budget_tracking, budgetUpdates, resolverVars>>
           ELSE RecordSpreadTrade(e.opp, e.totalInvestment, <<>>, FALSE, 0)
  /\ UNCHANGED <<risk_config, trades, aiFlows, lastVal, approvedSum, aiVars, advVars, scanVars, snipeVars,
                 paper_trading_mode, spread_opportunities, closedAtSource, spreadErrors, pm,
                 manualCheck>>
  /\ UNCHANGED loopVars

\* One placeMarketOrder returns.  The paper stub answers with a PAPER_ id and
\* places nothing; a live order that is accepted is on the exchange.  A
\* throw is caught: the trade is recorded as paper.  A MULTI market without
\* token ids is passed over, and the trade is live only when every market
\* got its order.
ExecPlaceOrder(result) ==
  /\ exec # {}
  /\ Row(exec).pc = "order"
  /\ result = "notoken" => Row(exec).opp.opportunity_type = "MULTI"
  /\ result = "fail" => ~pmIsPaperTrading(pm)
  /\ LET e == Row(exec)
         stub == pmIsPaperTrading(pm)
         orderIds == IF result = "ok"
                       THEN Append(e.orderIds, IF stub THEN "PAPER" ELSE "LIVE")
                       ELSE e.orderIds
         live == IF result = "ok" /\ ~stub THEN e.live + 1 ELSE e.live
         visited == IF e.opp.opportunity_type = "MULTI"
                      THEN e.markets - 1
                      ELSE 2 - Len(orderIds)
     IN  IF result = "fail"
           THEN RecordSpreadTrade(e.opp, e.totalInvestment, e.orderIds, FALSE, e.live)
         ELSE IF visited > 0
           THEN /\ exec' = {[e EXCEPT !.orderIds = orderIds, !.live = live,
                                      !.markets = IF e.opp.opportunity_type = "MULTI"
                                                    THEN visited ELSE @]}
                /\ UNCHANGED <<spread_trades, budget_tracking, budgetUpdates, resolverVars>>
         ELSE RecordSpreadTrade(e.opp, e.totalInvestment, orderIds,
                                \/ e.opp.opportunity_type = "SINGLE"
                                \/ Len(orderIds) = e.opp.num_outcomes,
                                live)
  /\ UNCHANGED <<risk_config, trades, aiFlows, lastVal, approvedSum, aiVars, advVars, scanVars, snipeVars,
                 paper_trading_mode, spread_opportunities, closedAtSource, spreadErrors, pm,
                 manualCheck>>
  /\ UNCHANGED loopVars

-----------------------------------------------------------------------------
(* SpreadService.checkOpenTrades and the resolver's timer *)

CheckKinds == {"scheduled", "manual"}

FlowOf(kind) == IF kind = "scheduled" THEN schedCheck ELSE manualCheck

\* closeSpreadTrade with the profit recomputed from the opportunity's row
closeSpreadTradeAtCurrentSpread(realizedPnl, id) ==
  [spread_trades EXCEPT
     ![id].status = "CLOSED",
     ![id].realized_pnl =
        ExpectedProfit(spread_opportunities[spread_trades[id].opportunity_id],
                       spread_trades[id].total_invested),
     ![id].credited = @ + 1]

\* queries.closeSpreadTrade: UPDATE ... SET status = 'CLOSED', realized_pnl = ?
\* WHERE id = ?, whatever the row's status.  credited counts the credits of
\* the trade's profit to the budget (history).
closeSpreadTrade(realizedPnl, id) ==
  [spread_trades EXCEPT ![id].status = "CLOSED",
                        ![id].realized_pnl = realizedPnl,
                        ![id].credited = @ + 1]

\* POST /check: checkOpenTrades(forceAll) up to its first await.  With
\* nothing to query it returns at once.
ManualCheck(forceAll) ==
  /\ manualCheck = {}
  /\ CheckQueue(spread_trades, forceAll) # <<>>
  /\ manualCheck' = BeginCheck(manualCheck, spread_trades, forceAll)
  /\ UNCHANGED <<riskVars, aiVars, advVars, scanVars, snipeVars, spreadVars, isResolverRunning, resolveInterval,
                 timers, schedCheck>>
  /\ UNCHANGED loopVars

\* checkOpenTrades: the data source answers for the next trade of the
\* snapshot.  A closed market closes the trade and credits its expected
\* profit; an open market or an error leaves it.
CheckStep(kind, response) ==
  /\ \E flow \in FlowOf(kind) :
     LET item == Head(flow.queue)
         closed == spread_trades[item.id].opportunity_id \in closedAtSource
         rest == (FlowOf(kind) \ {flow}) \cup {[flow EXCEPT !.queue = Tail(@)]}
     IN  /\ flow.queue # <<>>
         /\ response = "closed" => closed
         /\ response = "open" => ~closed
         /\ IF response = "closed"
              THEN /\ spread_trades' = closeSpreadTrade(item.expected_profit, item.id)
                   /\ updateBudget(0, item.expected_profit)
              ELSE UNCHANGED <<spread_trades, budget_tracking, budgetUpdates>>
         /\ IF kind = "scheduled"
              THEN schedCheck' = rest /\ UNCHANGED manualCheck
              ELSE manualCheck' = rest /\ UNCHANGED schedCheck
  /\ UNCHANGED <<risk_config, trades, aiFlows, lastVal, approvedSum, aiVars, advVars, scanVars, snipeVars,
                 paper_trading_mode, spread_opportunities, closedAtSource, spreadErrors, pm,
                 exec, isResolverRunning, resolveInterval, timers>>
  /\ UNCHANGED loopVars

\* checkOpenTrades returns after its last sleep: POST /check answers, and
\* runCheckAndReschedule goes on to reschedule.
CheckDone(kind) ==
  /\ \E flow \in FlowOf(kind) :
       /\ flow.queue = <<>>
       /\ IF kind = "scheduled"
            THEN /\ ResolverBecomes(
                      AfterCheck([Resolver EXCEPT !.schedCheck = @ \ {flow}],
                                 spread_trades))
                 /\ UNCHANGED manualCheck
            ELSE /\ manualCheck' = manualCheck \ {flow}
                 /\ UNCHANGED <<isResolverRunning, resolveInterval, timers,
                                schedCheck>>
  /\ UNCHANGED <<riskVars, aiVars, advVars, scanVars, snipeVars, spreadVars>>
  /\ UNCHANGED loopVars

\* startResolver called from outside executeSpread: by the server when it
\* starts listening, and by SpreadService.start
StartResolver ==
  /\ ResolverBecomes(startResolver(Resolver, spread_trades))
  /\ UNCHANGED <<riskVars, aiVars, advVars, scanVars, snipeVars, spreadVars, manualCheck, loopVars>>

\* A timeout of the resolver is due: runCheckAndReschedule
TimerFire(id) ==
  /\ \E t \in timers : t.id = id /\ t.delay = 0
  /\ ResolverBecomes(
       runCheckAndReschedule(
         [Resolver EXCEPT !.timers = {t \in @ : t.id # id}], spread_trades))
  /\ UNCHANGED <<riskVars, aiVars, advVars, scanVars, snipeVars, spreadVars, manualCheck>>
  /\ UNCHANGED loopVars

-----------------------------------------------------------------------------
(* SpreadService: the scanner.  Prices, costs and payouts are in hundredths
   of a dollar, spread_pct and the threshold in percent. *)

\* A missing id (market.id || null, market.eventId || null)
NoId == 0

\* guaranteedPayout = 1.0
Payout == 100

\* config?.min_spread_threshold || 0.01
DefaultThreshold == 1

\* Last-seen age, in ticks, up to which an opportunity is not stale
\* (datetime('now', '-5 minutes'))
StaleWindow == 30

MaxRows == 3
MaxScans == 1

\* minThreshold, as scanAll reads it
minThreshold(config) == IF config = 0 THEN DefaultThreshold ELSE config

RECURSIVE SumSeq(_)
SumSeq(s) == IF s = <<>> THEN 0 ELSE Head(s) + SumSeq(Tail(s))

\* The opportunity the scanners build for a market (YES and NO) or an event
\* (the YES prices of its markets).  source names the market or the event
\* observed (history).
Opportunity(type, marketId, eventId, prices, source) ==
  LET totalCost == SumSeq(prices)
      spreadProfit == Payout - totalCost
  IN  [opportunity_type |-> type, market_id |-> marketId, event_id |-> eventId,
       num_outcomes |-> Len(prices), total_cost |-> totalCost,
       guaranteed_payout |-> Payout, spread_profit |-> spreadProfit,
       spread_pct |-> (100 * spreadProfit) \div totalCost,
       end_date |-> NoEndDate, source |-> source]

\* scanSingleMarkets: one opportunity per listed market whose prices are
\* positive and cost less than the payout
RECURSIVE scanSingleMarkets(_)
scanSingleMarkets(markets) ==
  IF markets = <<>> THEN <<>>
  ELSE LET market == Head(markets)
           opp == Opportunity("SINGLE", market.id, market.eventId,
                              market.outcomePrices, <<"market", market.id>>)
       IN  (IF \/ \E k \in 1..2 : market.outcomePrices[k] <= 0
               \/ opp.spread_profit <= 0
              THEN <<>> ELSE <<opp>>) \o scanSingleMarkets(Tail(markets))

\* scanMultiOutcomeEvents: one opportunity per listed event of two markets
\* or more whose YES prices cost less than the payout
RECURSIVE scanMultiOutcomeEvents(_)
scanMultiOutcomeEvents(events) ==
  IF events = <<>> THEN <<>>
  ELSE LET event == Head(events)
           opp == Opportunity("MULTI", NoId, event.id, event.yesPrices,
                              <<"event", event.id>>)
       IN  (IF Len(event.yesPrices) < 2 \/ opp.spread_profit <= 0
              THEN <<>> ELSE <<opp>>) \o scanMultiOutcomeEvents(Tail(events))

\* opp.market_id || opp.event_id || ''
identifier(opp) == IF opp.market_id # NoId THEN opp.market_id ELSE opp.event_id

\* queries.findExistingOpportunity: the active rows of the type whose
\* market_id or event_id is the identifier.  LIMIT 1 of the table scan
\* gives the one of lowest id.
findExistingOpportunity(tbl, type, ident) ==
  {id \in DOMAIN tbl :
     /\ tbl[id].is_active
     /\ tbl[id].opportunity_type = type
     /\ ident # NoId
     /\ tbl[id].market_id = ident \/ tbl[id].event_id = ident}

\* updateOpportunityLastSeen without last_seen_at = CURRENT_TIMESTAMP
updateOpportunityKeepsLastSeen(tbl, opp, threshold, id) ==
  [tbl EXCEPT ![id].total_cost = opp.total_cost,
              ![id].spread_profit = opp.spread_profit,
              ![id].spread_pct = opp.spread_pct,
              ![id].threshold = threshold,
              ![id].writer = opp.source]

\* queries.updateOpportunityLastSeen.  threshold and writer are history:
\* the threshold the scan read, the market or event observed.
updateOpportunityLastSeen(tbl, opp, threshold, id) ==
  [tbl EXCEPT ![id].age = 0,
              ![id].total_cost = opp.total_cost,
              ![id].spread_profit = opp.spread_profit,
              ![id].spread_pct = opp.spread_pct,
              ![id].threshold = threshold,
              ![id].writer = opp.source]

\* queries.addSpreadOpportunity
addSpreadOpportunity(tbl, opp, threshold) ==
  Append(tbl,
    [id |-> Len(tbl) + 1, opportunity_type |-> opp.opportunity_type,
     market_id |-> opp.market_id, event_id |-> opp.event_id,
     num_outcomes |-> opp.num_outcomes, total_cost |-> opp.total_cost,
     guaranteed_payout |-> opp.guaranteed_payout,
     spread_profit |-> opp.spread_profit, spread_pct |-> opp.spread_pct,
     end_date |-> opp.end_date, is_active |-> TRUE, age |-> 0,
     threshold |-> threshold, owner |-> opp.source, writer |-> opp.source])

\* queries.deactivateStaleOpportunities
deactivateStaleOpportunities(tbl) ==
  [id \in DOMAIN tbl |->
     [tbl[id] EXCEPT !.is_active = @ /\ ~(tbl[id].age > StaleWindow)]]

\* The filter of scanAll without its threshold
AboveThresholdAny(opp, threshold) == TRUE

\* The filter of scanAll: o.spread_pct >= minThreshold
AboveThreshold(opp, threshold) == opp.spread_pct >= threshold

\* The loop of scanAll over the opportunities that pass the filter: each
\* refreshes the row found for it or is inserted.  bumped collects the
\* rows refreshed (history).
RECURSIVE Persist(_, _, _)
Persist(acc, opps, threshold) ==
  IF opps = <<>> THEN acc
  ELSE LET opp == Head(opps)
           existing == findExistingOpportunity(acc.tbl, opp.opportunity_type,
                                               identifier(opp))
       IN  Persist(
             IF ~AboveThreshold(opp, threshold) THEN acc
             ELSE IF existing # {}
               THEN [tbl |-> updateOpportunityLastSeen(acc.tbl, opp, threshold,
                                                       Min(existing)),
                     bumped |-> acc.bumped \cup {Min(existing)}]
               ELSE [tbl |-> addSpreadOpportunity(acc.tbl, opp, threshold),
                     bumped |-> acc.bumped],
             Tail(opps), threshold)

\* What the data source may list: markets with their event and prices,
\* events with the YES prices of their markets.  Market 9 belongs to an
\* event whose id is the id of market 7.
ListedPrices == {<<25, 25>>, <<40, 40>>, <<50, 50>>}
ListedMarkets ==
  {[id |-> 7, eventId |-> NoId, outcomePrices |-> p] : p \in ListedPrices}
    \cup {[id |-> 9, eventId |-> 7, outcomePrices |-> <<25, 25>>]}
ListedEvents == {[id |-> 7, yesPrices |-> <<40, 40>>]}

MarketListings ==
  {<<>>} \cup {<<m>> : m \in ListedMarkets}
    \cup {<<p[1], p[2]>> :
            p \in {q \in ListedMarkets \X ListedMarkets : q[1].id # q[2].id}}

EventListings == {<<>>} \cup {<<e>> : e \in ListedEvents}

\* scanAll up to its await: the threshold is read, the two listings are
\* requested.
ScanAll ==
  /\ Len(scans) < MaxScans
  /\ scans' = Append(scans, minThreshold(spread_config))
  /\ UNCHANGED <<spread_config, scanned>>
  /\ UNCHANGED <<riskVars, aiVars, advVars, spreadVars, snipeVars, resolverVars, loopVars>>

\* scanAll from the answers on (a failed request lists nothing): the
\* opportunities above the threshold are persisted, the stale rows
\* deactivated.
ScanDone(k, markets, events) ==
  /\ k \in DOMAIN scans
  /\ LET done == Persist([tbl |-> spread_opportunities, bumped |-> {}],
                         scanSingleMarkets(markets) \o scanMultiOutcomeEvents(events),
                         scans[k])
     IN  /\ Len(done.tbl) <= MaxRows
         /\ spread_opportunities' = deactivateStaleOpportunities(done.tbl)
         /\ scanned' = {[bumped |-> done.bumped]}
  /\ scans' = [j \in 1..(Len(scans) - 1) |-> IF j < k THEN scans[j] ELSE scans[j + 1]]
  /\ UNCHANGED <<spread_config, paper_trading_mode, spread_trades,
                 closedAtSource, spreadErrors, pm, exec>>
  /\ UNCHANGED <<riskVars, aiVars, advVars, snipeVars, resolverVars, loopVars>>

\* PATCH /api/spread/settings
UpdateSpreadConfig(threshold) ==
  /\ threshold # spread_config
  /\ spread_config' = threshold
  /\ UNCHANGED <<scans, scanned>>
  /\ UNCHANGED <<riskVars, aiVars, advVars, spreadVars, snipeVars, resolverVars, loopVars>>

-----------------------------------------------------------------------------
(* SnipeService.  Prices are in hundredths, profit targets in percent *)

\* riskConfig?.snipe_size || 10
SnipeSize == 10

\* current_price of a position whose price was never refreshed (NULL)
NoPrice == 0

\* The price a copied position is entered at
EntryPrice == 50

MaxPositions == 2
MaxSnipes == 2
MaxCloses == 2

\* The snipe_profit_target a call may find configured
Targets == {10, 50}

\* The prices the data source may report for a position's outcome
Prices == {50, 55, 75}

\* The prices checkAndClosePositions may simulate for a paper position
\* (within 0.055 of the entry price)
Simulated == {50, 55}

\* The positions of the top traders: (condition id, outcome)
Candidates == [conditionId : {"c1"}, outcome : {"Yes", "No"}]

\* What getTopPositions may return: the same position can be listed for two
\* traders; a failed request gives the empty list
TopLists ==
  {<<>>} \cup {<<a>> : a \in Candidates}
         \cup {<<a, b>> : a \in Candidates, b \in Candidates}

\* queries.getOpenSnipedPositions: WHERE status = 'OPEN'
getOpenSnipedPositions ==
  {i \in DOMAIN sniped_positions : sniped_positions[i].status = "OPEN"}

\* queries.getSnipedPositionByCondition:
\* WHERE condition_id = ? AND outcome = ? AND status = 'OPEN'
getSnipedPositionByCondition(conditionId, outcome) ==
  {i \in getOpenSnipedPositions :
     /\ sniped_positions[i].condition_id = conditionId
     /\ sniped_positions[i].outcome = outcome}

\* queries.addSnipedPosition: the row recorded, OPEN.  live_buy tells that
\* the buy order reached the exchange, sold that a sell order did (history).
NewSnipedPosition(pos, tokenId, profitTarget, isPaperTrade, live) ==
  [condition_id |-> pos.conditionId, outcome |-> pos.outcome,
   token_id |-> tokenId, entry_price |-> EntryPrice, current_price |-> NoPrice,
   size |-> SnipeSize, profit_target |-> profitTarget,
   is_paper_trade |-> isPaperTrade, status |-> "OPEN", realized_pnl |-> 0,
   live_buy |-> live, sold |-> FALSE]

SnipeIds == 1..MaxSnipes
CloseIds == 1..MaxCloses

\* The candidates left from the first one that is not held
RECURSIVE SkipHeld(_)
SkipHeld(queue) ==
  IF queue = <<>> THEN <<>>
  ELSE IF getSnipedPositionByCondition(Head(queue).conditionId,
                                       Head(queue).outcome) # {}
    THEN SkipHeld(Tail(queue))
    ELSE queue

\* The loop of snipeTopPositions over the candidates left: those already
\* held are skipped, and the market of the first one not held is fetched;
\* with none the call returns.
SnipeLoop(snipe, queue) ==
  IF SkipHeld(queue) = <<>> THEN {}
  ELSE {[snipe EXCEPT !.pc = "market", !.queue = SkipHeld(queue)]}

\* snipeTopPositions up to its first await: the size, the profit target and
\* the paper flag are read, and the top positions requested
SnipeTopPositions(profitTarget) ==
  /\ Cardinality(snipes) < MaxSnipes
  /\ snipes' = snipes \cup
       {[id |-> CHOOSE i \in SnipeIds : \A c \in snipes : c.id # i,
         isPaperMode |-> paper_trading_mode, profitTarget |-> profitTarget,
         pc |-> "top", queue |-> <<>>]}
  /\ UNCHANGED <<sniped_positions, closes>>
  /\ UNCHANGED <<riskVars, aiVars, advVars, scanVars, spreadVars, resolverVars, loopVars>>

\* getTopPositions returns and the loop over the candidates begins
TopPositionsReturned(snipe, list) ==
  /\ snipe \in snipes
  /\ snipe.pc = "top"
  /\ snipes' = (snipes \ {snipe}) \cup SnipeLoop(snipe, list)
  /\ UNCHANGED <<sniped_positions, closes>>
  /\ UNCHANGED <<riskVars, aiVars, advVars, scanVars, spreadVars, resolverVars, loopVars>>

\* The position is copied: addSnipedPosition and updateBudget(snipeSize, 0),
\* and the call sleeps before its next candidate
CopyPosition(snipe, tokenId, isPaperTrade, live) ==
  /\ sniped_positions' =
       Append(sniped_positions,
              NewSnipedPosition(Head(snipe.queue), tokenId,
                                snipe.profitTarget, isPaperTrade, live))
  /\ updateBudget(SnipeSize, 0)
  /\ snipes' = (snipes \ {snipe}) \cup {[snipe EXCEPT !.pc = "sleep"]}

\* The candidate's market is fetched (or the fetch fails): in live mode with
\* a token id the order is placed, the service being initialized first when
\* it has no client; otherwise the position is recorded as a paper trade.
MarketFetched(snipe, tokenId) ==
  /\ snipe \in snipes
  /\ snipe.pc = "market"
  /\ Len(sniped_positions) < MaxPositions
  /\ IF ~snipe.isPaperMode /\ tokenId
       THEN /\ pm' = IF pmIsInitialized(pm) THEN pm ELSE pmInitialize(pm)
            /\ snipes' = (snipes \ {snipe}) \cup
                 {[snipe EXCEPT !.pc = "order"]}
            /\ UNCHANGED <<sniped_positions, budget_tracking, budgetUpdates>>
       ELSE /\ CopyPosition(snipe, tokenId, TRUE, FALSE)
            /\ UNCHANGED pm
  /\ UNCHANGED closes
  /\ UNCHANGED <<risk_config, trades, aiFlows, lastVal, approvedSum, aiVars, advVars,
                 scanVars, paper_trading_mode, spread_opportunities, spread_trades,
                 closedAtSource, spreadErrors, exec, resolverVars, loopVars>>

\* placeMarketOrder returns or throws.  The paper stub answers with a PAPER_
\* id and places nothing.  The position is a paper trade when no order id
\* came back: isPaperMode || !orderId.
OrderReturned(snipe, result) ==
  /\ snipe \in snipes
  /\ snipe.pc = "order"
  /\ result = "fail" => ~pmIsPaperTrading(pm)
  /\ CopyPosition(snipe, TRUE, snipe.isPaperMode \/ result = "fail",
                  result = "ok" /\ ~pmIsPaperTrading(pm))
  /\ UNCHANGED closes
  /\ UNCHANGED <<risk_config, trades, aiFlows, lastVal, approvedSum, aiVars, advVars,
                 scanVars, spreadVars, resolverVars, loopVars>>

\* The sleep after a copy is over and the loop goes on
SnipeWakes(snipe) ==
  /\ snipe \in snipes
  /\ snipe.pc = "sleep"
  /\ snipes' = (snipes \ {snipe}) \cup SnipeLoop(snipe, Tail(snipe.queue))
  /\ UNCHANGED <<sniped_positions, closes>>
  /\ UNCHANGED <<riskVars, aiVars, advVars, scanVars, spreadVars, resolverVars, loopVars>>

\* A test that passes only above the profit target
ProfitTargetExceeded(pos, currentPrice) ==
  (currentPrice - pos.entry_price) * 100 > pos.profit_target * pos.entry_price

\* pnlPct >= pos.profit_target, with pnlPct = (currentPrice - entry) / entry
ProfitTargetReached(pos, currentPrice) ==
  (currentPrice - pos.entry_price) * 100 >= pos.profit_target * pos.entry_price

\* realizedPnl = (size / entry_price) * currentPrice - size
RealizedPnl(pos, currentPrice) ==
  (pos.size * currentPrice) \div pos.entry_price - pos.size

\* queries.updateSnipedPositionPrice
updateSnipedPositionPrice(tbl, id, currentPrice) ==
  [tbl EXCEPT ![id].current_price = currentPrice]

\* A close that also marks the position a paper trade
closeSnipedPositionAsPaper(tbl, id, currentPrice, realizedPnl, sold) ==
  [tbl EXCEPT ![id].status = "CLOSED", ![id].current_price = currentPrice,
              ![id].realized_pnl = realizedPnl, ![id].is_paper_trade = TRUE]

\* queries.closeSnipedPosition: status, current_price and realized_pnl
closeSnipedPosition(tbl, id, currentPrice, realizedPnl, sold) ==
  [tbl EXCEPT ![id].status = "CLOSED", ![id].current_price = currentPrice,
              ![id].realized_pnl = realizedPnl, ![id].sold = @ \/ sold]

\* checkAndClosePositions up to its first await: the open positions and the
\* paper flag are read once, and the first position's market is requested.
\* With no open position the call returns at once.
CheckAndClosePositions ==
  /\ Cardinality(closes) < MaxCloses
  /\ getOpenSnipedPositions # {}
  /\ closes' = closes \cup
       {[id |-> CHOOSE i \in CloseIds : \A c \in closes : c.id # i,
         isPaperMode |-> paper_trading_mode, pc |-> "price",
         queue |-> [k \in DOMAIN Descending(getOpenSnipedPositions) |->
                      [id |-> Descending(getOpenSnipedPositions)[k],
                       pos |-> sniped_positions[Descending(getOpenSnipedPositions)[k]]]],
         currentPrice |-> NoPrice]}
  /\ UNCHANGED <<sniped_positions, snipes>>
  /\ UNCHANGED <<riskVars, aiVars, advVars, scanVars, spreadVars, resolverVars, loopVars>>

\* The call after its position at the head: the sleep, and the request for
\* the next position's market; after the last one the call returns
NextPosition(close) ==
  IF Len(close.queue) > 1
    THEN {[close EXCEPT !.pc = "price", !.queue = Tail(@), !.currentPrice = NoPrice]}
    ELSE {}

\* The position's market is fetched, or the fetch fails: a paper position
\* then gets a simulated price, a live one keeps its entry price.  The
\* current price is stored, and when the profit target is reached the
\* position is closed and its P&L credited, after a sell order for a live
\* position with a token id while the store was not in paper mode.
PriceFetched(close, fetched, price, marketToken, simulated) ==
  /\ close \in closes
  /\ close.pc = "price"
  /\ LET item == Head(close.queue)
         pos == item.pos
         currentPrice == IF fetched THEN price
                         ELSE IF pos.is_paper_trade THEN simulated
                         ELSE pos.entry_price
         tokenId == pos.token_id \/ (fetched /\ marketToken)
         isRealTrade == ~pos.is_paper_trade /\ ~close.isPaperMode
         priced == updateSnipedPositionPrice(sniped_positions, item.id, currentPrice)
     IN  IF ~ProfitTargetReached(pos, currentPrice)
           THEN /\ sniped_positions' = priced
                /\ closes' = (closes \ {close}) \cup NextPosition(close)
                /\ UNCHANGED <<budget_tracking, budgetUpdates, pm>>
         ELSE IF isRealTrade /\ tokenId
           THEN /\ sniped_positions' = priced
                /\ pm' = IF pmIsInitialized(pm) THEN pm ELSE pmInitialize(pm)
                /\ closes' = (closes \ {close}) \cup
                     {[close EXCEPT !.pc = "sell", !.currentPrice = currentPrice]}
                /\ UNCHANGED <<budget_tracking, budgetUpdates>>
         ELSE /\ sniped_positions' =
                   closeSnipedPosition(priced, item.id, currentPrice,
                                       RealizedPnl(pos, currentPrice), FALSE)
              /\ updateBudget(0, RealizedPnl(pos, currentPrice))
              /\ closes' = (closes \ {close}) \cup NextPosition(close)
              /\ UNCHANGED pm
  /\ UNCHANGED snipes
  /\ UNCHANGED <<risk_config, trades, aiFlows, lastVal, approvedSum, aiVars, advVars,
                 scanVars, paper_trading_mode, spread_opportunities, spread_trades,
                 closedAtSource, spreadErrors, exec, resolverVars, loopVars>>

\* The sell order returns or throws (the failure is caught): the position is
\* closed and its P&L credited in either case.
SellReturned(close, result) ==
  /\ close \in closes
  /\ close.pc = "sell"
  /\ result = "fail" => ~pmIsPaperTrading(pm)
  /\ LET item == Head(close.queue)
     IN  /\ sniped_positions' =
              closeSnipedPosition(sniped_positions, item.id, close.currentPrice,
                                  RealizedPnl(item.pos, close.currentPrice),
                                  result = "ok" /\ ~pmIsPaperTrading(pm))
         /\ updateBudget(0, RealizedPnl(item.pos, close.currentPrice))
  /\ closes' = (closes \ {close}) \cup NextPosition(close)
  /\ UNCHANGED snipes
  /\ UNCHANGED <<risk_config, trades, aiFlows, lastVal, approvedSum, aiVars, advVars,
                 scanVars, spreadVars, resolverVars, loopVars>>

-----------------------------------------------------------------------------
(* The environment *)

\* The instants ahead at which an end_date is reached or a timeout is due
Ahead ==
  {t.delay : t \in timers}
    \cup {spread_trades[i].end_date : i \in DOMAIN spread_trades}
    \cup {spread_opportunities[o].end_date : o \in DOMAIN spread_opportunities}
    \cup {monitored_markets[m].end_date : m \in DOMAIN monitored_markets}
    \cup {Cooldown - last_analysis[m] :
            m \in {x \in DOMAIN last_analysis : last_analysis[x] # NeverAnalyzed}}
    \cup {StaleWindow :
            o \in {r \in DOMAIN spread_opportunities :
                     /\ spread_opportunities[r].is_active
                     /\ spread_opportunities[r].age = 0}}
    \cup {StaleWindow + 1 - spread_opportunities[o].age :
            o \in {r \in DOMAIN spread_opportunities : spread_opportunities[r].is_active}}

Elapse(end_date, d) == IF end_date > 0 THEN end_date - d ELSE end_date

\* Time passes until the next instant at which an end_date is reached, a
\* timeout is due, a market's cooldown has elapsed, an opportunity just seen
\* is at the end of the staleness window, or an active opportunity is past
\* it.  A timeout that is due fires before time moves on.
Tick ==
  /\ \A t \in timers : t.delay > 0
  /\ \E x \in Ahead : x > 0
  /\ LET d == Min({x \in Ahead : x > 0})
     IN  /\ timers' = {[t EXCEPT !.delay = @ - d] : t \in timers}
         /\ spread_trades' =
              [i \in DOMAIN spread_trades |->
                 [spread_trades[i] EXCEPT !.end_date = Elapse(@, d)]]
         /\ spread_opportunities' =
              [o \in DOMAIN spread_opportunities |->
                 [spread_opportunities[o] EXCEPT
                    !.end_date = Elapse(@, d),
                    !.age = Min({@ + d, StaleWindow + 1})]]
         /\ scanned' = {}
         /\ monitored_markets' =
              [m \in DOMAIN monitored_markets |->
                 [monitored_markets[m] EXCEPT !.end_date = Elapse(@, d)]]
         /\ last_analysis' =
              [m \in DOMAIN last_analysis |->
                 IF last_analysis[m] = NeverAnalyzed THEN NeverAnalyzed
                 ELSE Min({last_analysis[m] + d, Cooldown})]
  /\ UNCHANGED <<riskVars, gamma, resolveFlows, spread_config, scans,
                 providers, cycles, analysis_logs, trading_enabled,
                 paper_trading_mode, closedAtSource, spreadErrors, pm, exec,
                 isResolverRunning, resolveInterval, schedCheck, manualCheck>>
  /\ UNCHANGED <<snipeVars, loopVars>>

\* The data source starts to report an opportunity's market or event closed
MarketCloses(opportunityId) ==
  /\ opportunityId \notin closedAtSource
  /\ closedAtSource' = closedAtSource \cup {opportunityId}
  /\ UNCHANGED spreadErrors
  /\ UNCHANGED <<riskVars, aiVars, advVars, scanVars, snipeVars, paper_trading_mode, spread_opportunities,
                 spread_trades, pm, exec, resolverVars>>
  /\ UNCHANGED loopVars

\* PUT /api/config/app: paper_trading_mode is set in the store; the cached
\* flag of PolymarketService is not refreshed.
UpdateAppConfig(paper) ==
  /\ paper # paper_trading_mode
  /\ paper_trading_mode' = paper
  /\ UNCHANGED <<riskVars, aiVars, advVars, scanVars, snipeVars, spread_opportunities, spread_trades,
                 closedAtSource, spreadErrors, pm, exec, resolverVars>>
  /\ UNCHANGED loopVars

-----------------------------------------------------------------------------
(* The three loops: TradingService, SpreadService (scanner), SnipeService *)

Loops == {"trading", "spread", "snipe"}

IntervalIds == 1..MaxIntervals

InProgress(loop) == bodies[loop].start + bodies[loop].tick

\* setInterval: a handle that no scheduled interval of the loop has
NewInterval(loop) == Min(IntervalIds \ intervals[loop])

\* this.intervalId = setInterval(...): the handle held is overwritten
SetInterval(loop) ==
  /\ IntervalIds \ intervals[loop] # {}
  /\ intervals' = [intervals EXCEPT ![loop] = @ \cup {NewInterval(loop)}]
  /\ intervalId' = [intervalId EXCEPT ![loop] = NewInterval(loop)]

\* if (handle) { clearInterval(handle); handle = null }
ClearInterval(loop) ==
  /\ intervals' = [intervals EXCEPT ![loop] = @ \ {intervalId[loop]}]
  /\ intervalId' = [intervalId EXCEPT ![loop] = 0]

\* TradingService.start up to its await: a no-op when running; otherwise
\* isRunning is set and the initial cycle begins.  No interval is set yet.
TradingStart ==
  /\ ~isRunning["trading"]
  /\ InProgress("trading") < MaxBodies
  /\ isRunning' = [isRunning EXCEPT !["trading"] = TRUE]
  /\ bodies' = [bodies EXCEPT !["trading"].start = @ + 1]
  /\ UNCHANGED <<intervalId, intervals, riskVars, aiVars, advVars, scanVars, snipeVars, spreadVars, resolverVars>>

\* TradingService.start after its initial cycle: the interval is set
TradingStartResumes ==
  /\ bodies["trading"].start > 0
  /\ bodies' = [bodies EXCEPT !["trading"].start = @ - 1]
  /\ SetInterval("trading")
  /\ UNCHANGED <<isRunning, riskVars, aiVars, advVars, scanVars, snipeVars, spreadVars, resolverVars>>

\* TradingService.stop: a no-op when not running
TradingStop ==
  /\ isRunning["trading"]
  /\ ClearInterval("trading")
  /\ isRunning' = [isRunning EXCEPT !["trading"] = FALSE]
  /\ UNCHANGED <<bodies, riskVars, aiVars, advVars, scanVars, snipeVars, spreadVars, resolverVars>>

\* SpreadService.start and SnipeService.start: a no-op when running;
\* otherwise the body is started without being awaited and the interval is
\* set.  SpreadService.start also starts the resolver.
ScannerStart(loop) ==
  /\ loop \in {"spread", "snipe"}
  /\ ~isRunning[loop]
  /\ InProgress(loop) < MaxBodies
  /\ isRunning' = [isRunning EXCEPT ![loop] = TRUE]
  /\ bodies' = [bodies EXCEPT ![loop].start = @ + 1]
  /\ SetInterval(loop)
  /\ IF loop = "spread"
       THEN ResolverBecomes(startResolver(Resolver, spread_trades))
       ELSE UNCHANGED <<isResolverRunning, resolveInterval, timers, schedCheck>>
  /\ UNCHANGED <<manualCheck, riskVars, aiVars, advVars, scanVars, snipeVars, spreadVars>>

\* SpreadService.stop and SnipeService.stop
ScannerStop(loop) ==
  /\ loop \in {"spread", "snipe"}
  /\ isRunning[loop] \/ intervalId[loop] # 0
  /\ ClearInterval(loop)
  /\ isRunning' = [isRunning EXCEPT ![loop] = FALSE]
  /\ UNCHANGED <<bodies, riskVars, aiVars, advVars, scanVars, snipeVars, spreadVars, resolverVars>>

\* An interval timer fires: its callback starts the loop's body, whether or
\* not an earlier body of the loop is still in progress.
IntervalFires(loop, id) ==
  /\ id \in intervals[loop]
  /\ InProgress(loop) < MaxBodies
  /\ bodies' = [bodies EXCEPT ![loop].tick = @ + 1]
  /\ UNCHANGED <<isRunning, intervalId, intervals, riskVars, aiVars, advVars, scanVars, snipeVars, spreadVars,
                 resolverVars>>

\* A body started by a timer tick, or by the start of a scanner, completes
BodyCompletes(loop, by) ==
  /\ bodies[loop][by] > 0
  /\ by = "start" => loop # "trading"
  /\ bodies' = [bodies EXCEPT ![loop][by] = @ - 1]
  /\ UNCHANGED <<isRunning, intervalId, intervals, riskVars, aiVars, advVars, scanVars, snipeVars, spreadVars,
                 resolverVars>>

-----------------------------------------------------------------------------
(* Specifications *)

ConfiguredRisk ==
  [max_bet_size |-> 3, daily_budget |-> 4, max_open_positions |-> 2,
   min_confidence_threshold |-> 6, max_market_exposure |-> 3]

\* The active opportunities, with their end dates: the first is a SINGLE
\* market (YES and NO), the others are MULTI events of two markets.  They
\* were last seen more than the staleness window ago (no scan has run
\* since).
Opportunities(ends) ==
  [o \in OppIds |->
     [id |-> o, opportunity_type |-> IF o = 1 THEN "SINGLE" ELSE "MULTI",
      market_id |-> IF o = 1 THEN 7 ELSE NoId,
      event_id |-> IF o = 1 THEN NoId ELSE o,
      num_outcomes |-> 2, total_cost |-> 50, guaranteed_payout |-> Payout,
      spread_profit |-> 50, spread_pct |-> 100, end_date |-> ends[o],
      is_active |-> TRUE, age |-> StaleWindow + 1,
      threshold |-> DefaultThreshold,
      owner |-> IF o = 1 THEN <<"market", 7>> ELSE <<"event", o>>,
      writer |-> IF o = 1 THEN <<"market", 7>> ELSE <<"event", o>>]]

\* Nothing of the AI loop has happened
RiskIdle ==
  /\ budget_tracking = {}
  /\ budgetUpdates = [spent |-> 0, profit_loss |-> 0, calls |-> 0]
  /\ trades = <<>>
  /\ aiFlows = <<>>
  /\ lastVal = {}
  /\ approvedSum = 0

\* The monitored markets, with their end dates; the data source reports
\* them open and undecided.
MarketsMonitored(ends) ==
  /\ monitored_markets = [m \in Markets |-> [end_date |-> ends[m], is_active |-> TRUE]]
  /\ gamma = [m \in Markets |-> [closed |-> FALSE, prices |-> <<5, 5>>]]
  /\ resolveFlows = {}

\* No cycle runs, no market was analyzed; the fallback advisors are
\* initialized or not
AdvisoryIdle(gemini, local) ==
  /\ providers = [gemini |-> gemini, local |-> local]
  /\ last_analysis = [m \in Markets |-> NeverAnalyzed]
  /\ cycles = {}
  /\ analysis_logs = <<>>
  /\ trading_enabled = TRUE

\* No threshold is configured, no scan is in flight
ScanIdle ==
  /\ spread_config = 0
  /\ scans = <<>>
  /\ scanned = {}

\* No position was copied, no snipe call is in progress
SnipeIdle ==
  /\ sniped_positions = <<>>
  /\ snipes = {}
  /\ closes = {}

\* No spread trade was made, the resolver is stopped
SpreadIdle ==
  /\ spread_trades = <<>>
  /\ closedAtSource = {}
  /\ spreadErrors = {}
  /\ exec = {}
  /\ isResolverRunning = FALSE
  /\ resolveInterval = 0
  /\ timers = {}
  /\ schedCheck = {}
  /\ manualCheck = {}

\* No loop was started
LoopsIdle ==
  /\ isRunning = [l \in Loops |-> FALSE]
  /\ intervalId = [l \in Loops |-> 0]
  /\ intervals = [l \in Loops |-> {}]
  /\ bodies = [l \in Loops |-> [start |-> 0, tick |-> 0]]

\* The server has started: PolymarketService.initialize() has cached the
\* paper flag and built the client when the credentials are configured.
Started(paper, hasCredentials) ==
  /\ paper_trading_mode = paper
  /\ pm = [isPaperMode |-> paper, client |-> hasCredentials,
           hasCredentials |-> hasCredentials]

Init ==
  /\ risk_config \in {{}} \cup {{c} : c \in RiskConfigs}
  /\ RiskIdle
  /\ MarketsMonitored([m \in Markets |-> NoEndDate])
  /\ AdvisoryIdle(FALSE, FALSE)
  /\ ScanIdle
  /\ SnipeIdle
  /\ Started(TRUE, FALSE)
  /\ spread_opportunities = Opportunities([o \in OppIds |-> o])
  /\ SpreadIdle
  /\ LoopsIdle

Next ==
  \/ \E p \in Proposals, fail \in StoreReads \cup {"none"} : AnalyzeAndTrade(p, fail)
  \/ \E i \in 1..Len(aiFlows) : ExecuteTrade(i)

Spec == Init /\ [][Next]_vars

InitSpread ==
  /\ risk_config = {ConfiguredRisk}
  /\ RiskIdle
  /\ MarketsMonitored([m \in Markets |-> NoEndDate])
  /\ AdvisoryIdle(FALSE, FALSE)
  /\ ScanIdle
  /\ SnipeIdle
  /\ \E paper \in BOOLEAN : Started(paper, ~paper)
  /\ \E end \in {NoEndDate, 1} :
       spread_opportunities =
         Opportunities([o \in OppIds |-> IF o = 1 THEN MaxEnd ELSE end])
  /\ SpreadIdle
  /\ LoopsIdle

NextSpread ==
  \/ \E o \in OppIds, T \in Investments : ExecuteSpread(o, T)
  \/ \E response \in {"ok", "empty", "error"} : ExecFetched(response)
  \/ \E result \in {"ok", "fail", "notoken"} : ExecPlaceOrder(result)
  \/ \E forceAll \in BOOLEAN : ManualCheck(forceAll)
  \/ \E kind \in CheckKinds, response \in {"closed", "open", "error"} :
       CheckStep(kind, response)
  \/ \E kind \in CheckKinds : CheckDone(kind)
  \/ \E id \in TimerIds : TimerFire(id)
  \/ StartResolver
  \/ Tick
  \/ \E o \in OppIds : MarketCloses(o)
  \/ \E paper \in BOOLEAN : UpdateAppConfig(paper)

SpecSpread == InitSpread /\ [][NextSpread]_vars

\* The server has started with n open spread trades, made on earlier days
\* in paper mode, whose end dates are distinct and in the future:
\* startResolver at server start has scheduled the first check.
InitResolverLive ==
  /\ risk_config = {ConfiguredRisk}
  /\ RiskIdle
  /\ MarketsMonitored([m \in Markets |-> NoEndDate])
  /\ AdvisoryIdle(FALSE, FALSE)
  /\ ScanIdle
  /\ SnipeIdle
  /\ Started(TRUE, FALSE)
  /\ LoopsIdle
  /\ closedAtSource = {}
  /\ spreadErrors = {}
  /\ exec = {}
  /\ manualCheck = {}
  /\ \E ends \in [OppIds -> 1..MaxEnd], n \in OppIds :
       /\ \A o1, o2 \in OppIds : o1 # o2 => ends[o1] # ends[o2]
       /\ spread_opportunities = Opportunities(ends)
       /\ spread_trades =
            [i \in 1..n |-> NewSpreadTrade(Opportunities(ends)[i], 2, <<>>, FALSE, 0)]
       /\ LET R == startResolver(
                     [isResolverRunning |-> FALSE, resolveInterval |-> 0,
                      timers |-> {}, schedCheck |-> {}],
                     [i \in 1..n |-> NewSpreadTrade(Opportunities(ends)[i], 2, <<>>, FALSE, 0)])
          IN  /\ isResolverRunning = R.isResolverRunning
              /\ resolveInterval = R.resolveInterval
              /\ timers = R.timers
              /\ schedCheck = R.schedCheck

\* The data source answers every query of a check, and truthfully
NextResolverLive ==
  \/ \E id \in TimerIds : TimerFire(id)
  \/ \E kind \in CheckKinds, response \in {"closed", "open"} : CheckStep(kind, response)
  \/ \E kind \in CheckKinds : CheckDone(kind)
  \/ \E forceAll \in BOOLEAN : ManualCheck(forceAll)
  \/ Tick
  \/ \E o \in OppIds : MarketCloses(o)

\* Time passes, a due timeout fires, and the scheduled check's queries get
\* their answers.
SpecResolverLive ==
  /\ InitResolverLive
  /\ [][NextResolverLive]_vars
  /\ WF_vars(Tick)
  /\ WF_vars(\E id \in TimerIds : TimerFire(id))
  /\ WF_vars(\E response \in {"closed", "open"} : CheckStep("scheduled", response))
  /\ WF_vars(CheckDone("scheduled"))

\* The server has started on a new day with two EXECUTED AI trades, on
\* markets that end within MaxEnd ticks, and one open spread trade on the
\* first opportunity; the other opportunities' events have closed.
InitResolve ==
  /\ risk_config = {ConfiguredRisk}
  /\ budget_tracking = {}
  /\ budgetUpdates = [spent |-> 0, profit_loss |-> 0, calls |-> 0]
  /\ aiFlows = <<>>
  /\ lastVal = {}
  /\ approvedSum = 0
  /\ trades = <<NewTrade("m1", "YES", 2, 5), NewTrade("m2", "NO", 1, 0)>>
  /\ MarketsMonitored([m \in Markets |-> IF m = "m1" THEN 1 ELSE MaxEnd])
  /\ AdvisoryIdle(FALSE, FALSE)
  /\ ScanIdle
  /\ SnipeIdle
  /\ Started(TRUE, FALSE)
  /\ LoopsIdle
  /\ closedAtSource = OppIds \ {1}
  /\ spreadErrors = {}
  /\ exec = {}
  /\ manualCheck = {}
  /\ spread_opportunities = Opportunities([o \in OppIds |-> o])
  /\ spread_trades = <<NewSpreadTrade(Opportunities([o \in OppIds |-> o])[1], 2, <<>>, FALSE, 0)>>
  /\ LET R == startResolver(
                [isResolverRunning |-> FALSE, resolveInterval |-> 0,
                 timers |-> {}, schedCheck |-> {}],
                <<NewSpreadTrade(Opportunities([o \in OppIds |-> o])[1], 2, <<>>, FALSE, 0)>>)
     IN  /\ isResolverRunning = R.isResolverRunning
         /\ resolveInterval = R.resolveInterval
         /\ timers = R.timers
         /\ schedCheck = R.schedCheck

\* The trading cycles' resolution of expired AI trades and the scheduled
\* checks of the open spread trade, against a data source that closes
\* markets and may fail
NextResolve ==
  \/ ResolveExpiredTrades
  \/ \E run \in ResolveIds, response \in {"data", "null", "error"} :
       ResolveStep(run, response)
  \/ \E m \in Markets, prices \in OutcomePrices : GammaCloses(m, prices)
  \/ \E id \in TimerIds : TimerFire(id)
  \/ \E kind \in CheckKinds, response \in {"closed", "open", "error"} :
       CheckStep(kind, response)
  \/ \E kind \in CheckKinds : CheckDone(kind)
  \/ Tick
  \/ \E o \in OppIds : MarketCloses(o)

SpecResolve == InitResolve /\ [][NextResolve]_vars

\* The server has started with an empty opportunity table: scans fill it
\* while time passes and the threshold is reconfigured.
InitScan ==
  /\ risk_config = {ConfiguredRisk}
  /\ RiskIdle
  /\ MarketsMonitored([m \in Markets |-> NoEndDate])
  /\ AdvisoryIdle(FALSE, FALSE)
  /\ ScanIdle
  /\ SnipeIdle
  /\ Started(TRUE, FALSE)
  /\ spread_opportunities = <<>>
  /\ SpreadIdle
  /\ LoopsIdle

Thresholds == {0, 100}

NextScan ==
  \/ ScanAll
  \/ \E k \in 1..MaxScans, markets \in MarketListings, events \in EventListings :
       ScanDone(k, markets, events)
  \/ \E threshold \in Thresholds : UpdateSpreadConfig(threshold)
  \/ Tick

SpecScan == InitScan /\ [][NextScan]_vars

\* The server has started in paper mode with opportunities found more than
\* the staleness window ago.  They are executed while scans that list the
\* first one's market at changing prices, or nothing, refresh and
\* deactivate them, and the resolver's check closes the trades.  No time
\* passes.
InitLocked ==
  /\ risk_config = {ConfiguredRisk}
  /\ RiskIdle
  /\ MarketsMonitored([m \in Markets |-> NoEndDate])
  /\ AdvisoryIdle(FALSE, FALSE)
  /\ ScanIdle
  /\ SnipeIdle
  /\ Started(TRUE, FALSE)
  /\ spread_opportunities = Opportunities([o \in OppIds |-> NoEndDate])
  /\ SpreadIdle
  /\ LoopsIdle

OneMarketListings ==
  {<<>>} \cup {<<m>> : m \in {n \in ListedMarkets : n.id = 7}}

NextLocked ==
  \/ ScanAll
  \/ \E k \in 1..MaxScans, markets \in OneMarketListings : ScanDone(k, markets, <<>>)
  \/ \E o \in 1..MaxRows, T \in Investments : ExecuteSpread(o, T)
  \/ \E response \in {"closed", "open", "error"} : CheckStep("scheduled", response)
  \/ CheckDone("scheduled")
  \/ \E o \in 1..MaxRows : MarketCloses(o)

SpecLocked == InitLocked /\ [][NextLocked]_vars

\* As before, and executions are asked for the first opportunity and for an
\* id the table does not have, whether or not they are active.
NextLookup ==
  \/ NextLocked
  \/ \E o \in {1, MaxRows + 1} : ExecuteSpreadRejected(o)

SpecLookup == InitLocked /\ [][NextLookup]_vars

\* The server has started with trading enabled and the risk limits
\* configured; the fallback advisors are initialized or not.  Cycles run
\* over the two monitored markets while time passes.
InitAdvisory ==
  /\ risk_config = {ConfiguredRisk}
  /\ RiskIdle
  /\ MarketsMonitored([m \in Markets |-> NoEndDate])
  /\ \E gemini, local \in BOOLEAN : AdvisoryIdle(gemini, local)
  /\ ScanIdle
  /\ SnipeIdle
  /\ Started(TRUE, FALSE)
  /\ spread_opportunities = Opportunities([o \in OppIds |-> NoEndDate])
  /\ SpreadIdle
  /\ LoopsIdle

NextAdvisory ==
  \/ RunTradingCycle
  \/ \E cycle \in cycles, readFails \in BOOLEAN : ResolveReturns(cycle, readFails)
  \/ \E cycle \in cycles, historyFails, readFails \in BOOLEAN :
       CheckCooldown(cycle, historyFails, readFails)
  \/ \E cycle \in cycles, hasData \in BOOLEAN : FetchMarketData(cycle, hasData)
  \/ \E cycle \in cycles, response \in Responses, decision \in Decisions :
       AdvisorAnswers(cycle, response, decision)
  \/ \E cycle \in cycles : Sleep(cycle)
  \/ \E i \in 1..Len(aiFlows) : ExecuteTrade(i)
  \/ Tick

SpecAdvisory == InitAdvisory /\ [][NextAdvisory]_vars

\* The server has started with one open trade on a market that is about to
\* end; only Claude is initialized.  Cycles resolve the expired trades and
\* run over the monitored markets, one cycle after the other, while
\* requests, writes and the data source may fail, markets close, and trading
\* is disabled and enabled.
InitCycle ==
  /\ risk_config = {ConfiguredRisk}
  /\ budget_tracking = {}
  /\ budgetUpdates = [spent |-> 0, profit_loss |-> 0, calls |-> 0]
  /\ aiFlows = <<>>
  /\ lastVal = {}
  /\ approvedSum = 0
  /\ trades = <<NewTrade("m1", "YES", 1, 5)>>
  /\ MarketsMonitored([m \in Markets |-> 1])
  /\ AdvisoryIdle(FALSE, FALSE)
  /\ ScanIdle
  /\ SnipeIdle
  /\ Started(TRUE, FALSE)
  /\ spread_opportunities = Opportunities([o \in OppIds |-> NoEndDate])
  /\ SpreadIdle
  /\ LoopsIdle

NextCycle ==
  \/ cycles = {} /\ RunTradingCycle
  \/ \E cycle \in cycles, readFails \in BOOLEAN : ResolveReturns(cycle, readFails)
  \/ \E run \in ResolveIds, response \in {"data", "error"} : ResolveStep(run, response)
  \/ \E cycle \in cycles, historyFails, readFails \in BOOLEAN :
       CheckCooldown(cycle, historyFails, readFails)
  \/ \E cycle \in cycles, hasData \in BOOLEAN : FetchMarketData(cycle, hasData)
  \/ \E cycle \in cycles, response \in Responses, decision \in Decisions :
       AdvisorAnswers(cycle, response, decision)
  \/ \E cycle \in cycles : Sleep(cycle)
  \/ \E i \in 1..Len(aiFlows) : ExecuteTrade(i)
  \/ \E i \in 1..Len(aiFlows), recorded \in BOOLEAN : ExecuteTradeFails(i, recorded)
  \/ \E m \in Markets : GammaCloses(m, <<10, 0>>)
  \/ \E enabled \in BOOLEAN : SetTradingEnabled(enabled)
  \/ Tick

SpecCycle == InitCycle /\ [][NextCycle]_vars

\* The server has started with credentials, in paper or in live mode.  Top
\* positions are copied and the open positions checked, by calls that may
\* overlap (the loop's timer and the routes), while the paper flag is
\* changed in the store and requests and orders may fail.
InitSnipe ==
  /\ risk_config = {ConfiguredRisk}
  /\ RiskIdle
  /\ MarketsMonitored([m \in Markets |-> NoEndDate])
  /\ AdvisoryIdle(FALSE, FALSE)
  /\ ScanIdle
  /\ SnipeIdle
  /\ \E paper \in BOOLEAN : Started(paper, TRUE)
  /\ spread_opportunities = Opportunities([o \in OppIds |-> NoEndDate])
  /\ SpreadIdle
  /\ LoopsIdle

NextSnipe ==
  \/ \E profitTarget \in Targets : SnipeTopPositions(profitTarget)
  \/ \E snipe \in snipes, list \in TopLists : TopPositionsReturned(snipe, list)
  \/ \E snipe \in snipes, tokenId \in BOOLEAN : MarketFetched(snipe, tokenId)
  \/ \E snipe \in snipes, result \in {"ok", "fail"} : OrderReturned(snipe, result)
  \/ \E snipe \in snipes : SnipeWakes(snipe)
  \/ \E paper \in BOOLEAN : UpdateAppConfig(paper)

SpecSnipe == InitSnipe /\ [][NextSnipe]_vars

\* The server has started with one open trade on the first market, the
\* only active one, which is about to end; only Claude is initialized and
\* it answers; paper_trading_mode is set in the store or not.  Cycles, one
\* after the other, and the manual trigger resolve
\* the expired trades, and the advisor decides HOLD, BUY or SELL, while the
\* market closes and time passes.
InitSell ==
  /\ risk_config = {ConfiguredRisk}
  /\ budget_tracking = {}
  /\ budgetUpdates = [spent |-> 0, profit_loss |-> 0, calls |-> 0]
  /\ aiFlows = <<>>
  /\ lastVal = {}
  /\ approvedSum = 0
  /\ trades = <<NewTrade("m1", "YES", 1, 5)>>
  /\ monitored_markets =
       [m \in Markets |-> [end_date |-> IF m = "m1" THEN 1 ELSE NoEndDate,
                           is_active |-> m = "m1"]]
  /\ gamma = [m \in Markets |-> [closed |-> FALSE, prices |-> <<5, 5>>]]
  /\ resolveFlows = {}
  /\ AdvisoryIdle(FALSE, FALSE)
  /\ ScanIdle
  /\ SnipeIdle
  /\ \E paper \in BOOLEAN : Started(paper, ~paper)
  /\ spread_opportunities = Opportunities([o \in OppIds |-> NoEndDate])
  /\ SpreadIdle
  /\ LoopsIdle

NextSell ==
  \/ cycles = {} /\ RunTradingCycle
  \/ \E cycle \in cycles : ResolveReturns(cycle, FALSE)
  \/ ResolveExpiredTrades
  \/ \E run \in ResolveIds : ResolveStep(run, "data")
  \/ \E cycle \in cycles : CheckCooldown(cycle, FALSE, FALSE)
  \/ \E cycle \in cycles : FetchMarketData(cycle, TRUE)
  \/ \E cycle \in cycles, decision \in Decisions : AdvisorAnswers(cycle, "valid", decision)
  \/ \E cycle \in cycles, sellPrice \in SellPrices : AdvisorSells(cycle, sellPrice)
  \/ \E cycle \in cycles : Sleep(cycle)
  \/ \E i \in 1..Len(aiFlows) : ExecuteTrade(i)
  \/ GammaCloses("m1", <<10, 0>>)
  \/ Tick

SpecSell == InitSell /\ [][NextSell]_vars

\* The risk limits are configured, with a maximum bet size that may be 0;
\* no trade was made.  Proposals are validated and the approved ones
\* executed.
InitGate ==
  /\ \E max \in {0, 2} : risk_config = {[ConfiguredRisk EXCEPT !.max_bet_size = max]}
  /\ RiskIdle
  /\ MarketsMonitored([m \in Markets |-> NoEndDate])
  /\ AdvisoryIdle(FALSE, FALSE)
  /\ ScanIdle
  /\ SnipeIdle
  /\ Started(TRUE, FALSE)
  /\ spread_opportunities = Opportunities([o \in OppIds |-> o])
  /\ SpreadIdle
  /\ LoopsIdle

SpecGate == InitGate /\ [][Next]_vars

\* Two positions were copied, a paper one and a live one whose order was
\* placed.  The open positions are checked, by calls that may overlap, while
\* the paper flag is changed in the store and requests and orders may fail.
InitClose ==
  /\ risk_config = {ConfiguredRisk}
  /\ budgetUpdates = [spent |-> SnipeSize + SnipeSize, profit_loss |-> 0, calls |-> 2]
  /\ budget_tracking = {[spent |-> SnipeSize + SnipeSize, profit_loss |-> 0,
                         trades_count |-> 2]}
  /\ trades = <<>>
  /\ aiFlows = <<>>
  /\ lastVal = {}
  /\ approvedSum = 0
  /\ MarketsMonitored([m \in Markets |-> NoEndDate])
  /\ AdvisoryIdle(FALSE, FALSE)
  /\ ScanIdle
  /\ \E target \in Targets, tokenId \in BOOLEAN :
       sniped_positions =
         <<NewSnipedPosition([conditionId |-> "c1", outcome |-> "Yes"],
                             tokenId, target, TRUE, FALSE),
           NewSnipedPosition([conditionId |-> "c1", outcome |-> "No"],
                             TRUE, target, FALSE, TRUE)>>
  /\ snipes = {}
  /\ closes = {}
  /\ Started(FALSE, TRUE)
  /\ spread_opportunities = Opportunities([o \in OppIds |-> NoEndDate])
  /\ SpreadIdle
  /\ LoopsIdle

NextClose ==
  \/ CheckAndClosePositions
  \/ \E close \in closes, fetched \in BOOLEAN, price \in Prices,
        marketToken \in BOOLEAN, simulated \in Simulated :
       PriceFetched(close, fetched, price, marketToken, simulated)
  \/ \E close \in closes, result \in {"ok", "fail"} : SellReturned(close, result)
  \/ \E paper \in BOOLEAN : UpdateAppConfig(paper)

SpecClose == InitClose /\ [][NextClose]_vars

\* No operation that records or changes a trade is in progress
Idle ==
  /\ aiFlows = <<>> /\ resolveFlows = {}
  /\ exec = {} /\ manualCheck = {} /\ schedCheck = {}
  /\ snipes = {} /\ closes = {}

\* The server has started with credentials, in paper or in live mode, and
\* the monitored markets have just ended.  One AI trade, one spread trade
\* and one sniped position are recorded and then refreshed, closed and
\* resolved, one operation at a time, while the paper flag is changed in
\* the store.
InitRecords ==
  /\ risk_config = {ConfiguredRisk}
  /\ RiskIdle
  /\ MarketsMonitored([m \in Markets |-> 0])
  /\ AdvisoryIdle(FALSE, FALSE)
  /\ ScanIdle
  /\ SnipeIdle
  /\ \E paper \in BOOLEAN : Started(paper, TRUE)
  /\ spread_opportunities = Opportunities([o \in OppIds |-> NoEndDate])
  /\ SpreadIdle
  /\ LoopsIdle

NextRecords ==
  \/ Idle /\ trades = <<>> /\ AnalyzeAndTrade(Suggested("m1"), "none")
  \/ \E i \in 1..Len(aiFlows) : ExecuteTrade(i)
  \/ \E i \in 1..Len(aiFlows) : ExecuteTradeFails(i, TRUE)
  \/ Idle /\ ResolveExpiredTrades
  \/ \E run \in ResolveIds, response \in {"data", "error"} : ResolveStep(run, response)
  \/ GammaCloses("m1", <<10, 0>>)
  \/ Idle /\ spread_trades = <<>> /\ ExecuteSpread(1, 2)
  \/ \E response \in {"ok", "error"} : ExecFetched(response)
  \/ \E result \in {"ok", "fail"} : ExecPlaceOrder(result)
  \/ Idle /\ ManualCheck(TRUE)
  \/ \E kind \in CheckKinds, response \in {"closed", "open"} : CheckStep(kind, response)
  \/ \E kind \in CheckKinds : CheckDone(kind)
  \/ MarketCloses(1)
  \/ Idle /\ sniped_positions = <<>> /\ SnipeTopPositions(10)
  \/ \E snipe \in snipes : TopPositionsReturned(snipe, <<[conditionId |-> "c1", outcome |-> "Yes"]>>)
  \/ \E snipe \in snipes, tokenId \in BOOLEAN : MarketFetched(snipe, tokenId)
  \/ \E snipe \in snipes, result \in {"ok", "fail"} : OrderReturned(snipe, result)
  \/ \E snipe \in snipes : SnipeWakes(snipe)
  \/ Idle /\ CheckAndClosePositions
  \/ \E close \in closes, price \in {50, 55} :
       PriceFetched(close, TRUE, price, TRUE, 50)
  \/ \E close \in closes, result \in {"ok", "fail"} : SellReturned(close, result)
  \/ \E paper \in BOOLEAN : UpdateAppConfig(paper)

SpecRecords == InitRecords /\ [][NextRecords]_vars

InitLoops ==
  /\ risk_config = {ConfiguredRisk}
  /\ RiskIdle
  /\ MarketsMonitored([m \in Markets |-> NoEndDate])
  /\ AdvisoryIdle(FALSE, FALSE)
  /\ ScanIdle
  /\ SnipeIdle
  /\ Started(TRUE, FALSE)
  /\ spread_opportunities =
       Opportunities([o \in OppIds |-> IF o = 1 THEN MaxEnd ELSE NoEndDate])
  /\ SpreadIdle
  /\ LoopsIdle

NextLoops ==
  \/ TradingStart
  \/ TradingStartResumes
  \/ TradingStop
  \/ \E loop \in Loops : ScannerStart(loop)
  \/ \E loop \in Loops : ScannerStop(loop)
  \/ \E loop \in Loops, id \in IntervalIds : IntervalFires(loop, id)
  \/ \E loop \in Loops, by \in {"start", "tick"} : BodyCompletes(loop, by)

SpecLoops == InitLoops /\ [][NextLoops]_vars

-----------------------------------------------------------------------------
(* The risk gate's claims *)

\* C1: whenever validateTrade approves a proposal (no store read failing),
\* the adjusted size is at most max_bet_size, at most the remaining daily
\* budget and at most max_market_exposure minus the market's exposure.
C1_ApprovedSizeWithinAllLimits ==
  \A v \in lastVal :
    (v.fail = "none" /\ v.result.approved) =>
      /\ v.result.adjustedSize <= Row(risk_config).max_bet_size
      /\ v.result.adjustedSize <= v.remaining
      /\ v.result.adjustedSize <= Row(risk_config).max_market_exposure - v.exposure

\* C2: in every state of the ledger, today's spent is the sum of the sizes
\* the gate approved for the executed trades, and it is at most daily_budget.
C2_SpentWithinDailyBudget ==
  \A b \in budget_tracking :
    /\ b.spent = approvedSum
    /\ risk_config # {} => b.spent <= Row(risk_config).daily_budget

\* C3: validateTrade never approves while the number of EXECUTED trades is
\* at or above max_open_positions.
C3_NoApprovalAtMaxOpenPositions ==
  \A v \in lastVal :
    (v.configured /\ v.fail = "none"
       /\ v.open >= Row(risk_config).max_open_positions)
      => ~v.result.approved

\* C4: the gate fails closed: with the risk configuration missing, or with a
\* store read that validateTrade makes failing, the result is a rejection.
C4_FailsClosed ==
  \A v \in lastVal :
    (~v.configured \/ v.readFailed) => ~v.result.approved

\* C5: validateTrade rejects every proposal whose confidence is below
\* min_confidence_threshold, whatever its size, the budget, the open
\* positions, the exposure and the store's failures.
C5_LowConfidenceRejected ==
  \A v \in lastVal :
    (v.configured
       /\ v.proposal.confidence < Row(risk_config).min_confidence_threshold)
      => ~v.result.approved

\* C5's case: a proposal below the threshold that every other check would
\* have let through at its full size was just rejected for its confidence.
C5_Witness ==
  \E v \in lastVal :
    /\ v.configured /\ v.fail = "none"
    /\ v.proposal.confidence < Row(risk_config).min_confidence_threshold
    /\ v.proposal.size > 0
    /\ v.proposal.size <= Row(risk_config).max_bet_size
    /\ v.proposal.size <= v.remaining
    /\ v.open < Row(risk_config).max_open_positions
    /\ v.exposure + v.proposal.size <= Row(risk_config).max_market_exposure
    /\ v.result = Rejected("Confidence below minimum threshold")

-----------------------------------------------------------------------------
(* The spread trades' claims *)

\* C6: each spread trade's resolution is credited to the daily ledger at
\* most once (and exactly once when the trade is CLOSED), under every
\* interleaving of the scheduler's check and manual checks.
C6_ResolutionCreditedOnce ==
  \A i \in DOMAIN spread_trades :
    /\ spread_trades[i].credited <= 1
    /\ spread_trades[i].status = "CLOSED" => spread_trades[i].credited = 1

\* C7: a recorded spread trade is never half-executed: live orders were
\* placed for all of its outcomes or for none, and a trade recorded as paper
\* carries no live order.
C7_NeverHalfExecuted ==
  \A i \in DOMAIN spread_trades :
    /\ spread_trades[i].live_orders \in {0, spread_trades[i].num_outcomes}
    /\ spread_trades[i].is_paper_trade => spread_trades[i].live_orders = 0

\* At most one timeout of the resolver is pending, and at most one scheduled
\* check is in flight (a well-formedness condition of the model).
OneTimer == Cardinality(timers) <= 1

-----------------------------------------------------------------------------
(* The loops' claims *)

\* C8: no loop runs concurrently with itself: at most one body started by a
\* timer tick is in progress per loop.
C8_NoOverlappingTicks ==
  \A loop \in Loops : bodies[loop].tick <= 1

\* C9: each loop has at most one interval timer scheduled, and a timer is
\* scheduled only while the loop reports running.
C9_OneTimerOnlyWhileRunning ==
  \A loop \in Loops :
    /\ Cardinality(intervals[loop]) <= 1
    /\ intervals[loop] # {} => isRunning[loop]
-----------------------------------------------------------------------------
(* The resolution scheduler's claim *)

AllClosedAtSource ==
  \A i \in OpenIds(spread_trades) : spread_trades[i].opportunity_id \in closedAtSource

ResolverStopped ==
  /\ OpenIds(spread_trades) = {}
  /\ ~isResolverRunning
  /\ timers = {}
  /\ schedCheck = {}

\* C10: started on open trades with distinct future end dates, and its
\* checks closing the trades whose market the data source reports closed,
\* the scheduler reaches, once the markets of the open trades have closed,
\* a state with no open trade where it has stopped itself: the resolver
\* flag is false and no timeout is pending.
C10_SchedulerTerminates == AllClosedAtSource ~> ResolverStopped

\* C10's case: every trade the scheduler was started on has been closed,
\* and the scheduler has stopped itself.
C10_Witness ==
  /\ spread_trades # <<>>
  /\ \A i \in DOMAIN spread_trades : spread_trades[i].status = "CLOSED"
  /\ ResolverStopped
  /\ manualCheck = {}

-----------------------------------------------------------------------------
(* The resolution scheduler's invariants *)

\* C11: under every interleaving of startResolver calls with the checks, at
\* most one resolution timeout is pending or scheduled check in flight, and
\* no timeout is pending while the resolver reports not running.
C11_OneTimerOrScheduledCheck ==
  /\ Cardinality(timers) + Cardinality(schedCheck) <= 1
  /\ ~isResolverRunning => timers = {}

\* C11's case: a second trade was executed, and startResolver called, while
\* the resolver was running on the first; one timeout or check serves both.
C11_Witness ==
  /\ isResolverRunning
  /\ Cardinality(OpenIds(spread_trades)) = 2
  /\ Cardinality(timers) + Cardinality(schedCheck) = 1

\* C12: while the resolver waits on a timeout set against the end dates
\* (not the 5 minute retry) and every open trade's end_date is in the
\* future, the timeout is due at the earliest of these end dates plus the
\* 60 s buffer, for the open trades as they are now.
C12_TimerAtEarliestFutureEnd ==
  \A t \in timers :
    LET open == OpenIds(spread_trades)
    IN  (~t.retry /\ open # {} /\ \A i \in open : spread_trades[i].end_date > 0)
          => t.delay = Min({spread_trades[i].end_date : i \in open}) + BUFFER

-----------------------------------------------------------------------------
(* checkOpenTrades *)

ChecksInFlight == schedCheck \cup manualCheck

\* C13: a checkOpenTrades call without force queries no open trade whose
\* end_date is in the future: those are skipped; a forced call skips no
\* open trade.
C13_FutureTradesSkippedUnlessForced ==
  \A flow \in ChecksInFlight :
    /\ ~flow.forceAll =>
         \A k \in DOMAIN flow.queue : PastDue(spread_trades[flow.queue[k].id])
    /\ flow.forceAll => flow.skipped = {}

\* C13's case: an unforced call skipped a trade ending in the future while
\* another trade is to be queried, and a forced call in flight at the same
\* time is to query a trade ending in the future.
C13_Witness ==
  /\ \E flow \in ChecksInFlight :
       /\ ~flow.forceAll
       /\ flow.queue # <<>>
       /\ \E i \in flow.skipped :
            spread_trades[i].status = "OPEN" /\ spread_trades[i].end_date > 0
  /\ \E flow \in ChecksInFlight :
       /\ flow.forceAll
       /\ \E k \in DOMAIN flow.queue : spread_trades[flow.queue[k].id].end_date > 0

-----------------------------------------------------------------------------
(* Resolution *)

\* C14: resolution is never forced.  A spread trade is CLOSED only when the
\* data source reports its market or event closed, and an open one has no
\* P&L; an AI trade is RESOLVED only when its market's end_date has passed,
\* the data source reports the market closed and one outcome price is above
\* 0.9, and an EXECUTED one has no P&L and no resolved outcome.
C14_ResolutionNeverForced ==
  /\ \A i \in DOMAIN spread_trades :
       /\ spread_trades[i].status = "CLOSED" =>
            spread_trades[i].opportunity_id \in closedAtSource
       /\ spread_trades[i].status = "OPEN" =>
            spread_trades[i].realized_pnl = 0 /\ spread_trades[i].credited = 0
  /\ \A i \in DOMAIN trades :
       /\ trades[i].status = "RESOLVED" =>
            /\ monitored_markets[trades[i].market_id].end_date = 0
            /\ gamma[trades[i].market_id].closed
            /\ \E k \in 1..2 : gamma[trades[i].market_id].prices[k] > 9
       /\ trades[i].status = "EXECUTED" =>
            trades[i].pnl = 0 /\ trades[i].resolved_outcome = NoOutcome

\* C14's case: the spread trade was closed and an AI trade resolved, while
\* a resolution attempt left the other AI trade EXECUTED: its market has
\* ended and is reported closed, but no price tells the winner.
C14_Witness ==
  /\ \E i \in DOMAIN spread_trades : spread_trades[i].status = "CLOSED"
  /\ \E i \in DOMAIN trades : trades[i].status = "RESOLVED"
  /\ \E i \in DOMAIN trades :
       /\ trades[i].status = "EXECUTED"
       /\ trades[i].left_open
       /\ monitored_markets[trades[i].market_id].end_date = 0
       /\ gamma[trades[i].market_id].closed
       /\ resolveFlows = {}

-----------------------------------------------------------------------------
(* The scanner's claims *)

\* Today's row of budget_tracking, as updateBudget reads it
TodayBudget == IF budget_tracking = {} THEN NewBudgetRow ELSE Row(budget_tracking)

\* C15: a spread trade's expected profit is the one computed from the
\* opportunity when the trade was recorded and never changes afterwards,
\* whatever scans do to the opportunity; a step that closes the trade sets
\* realized_pnl to it, adds it to today's profit_loss and leaves spent as
\* it was.
C15_ExpectedProfitLocked ==
  [][/\ Len(spread_trades') >= Len(spread_trades)
     /\ \A i \in DOMAIN spread_trades' :
          IF i \in DOMAIN spread_trades
            THEN /\ spread_trades'[i].expected_profit = spread_trades[i].expected_profit
                 /\ spread_trades'[i].credited # spread_trades[i].credited =>
                      /\ spread_trades'[i].status = "CLOSED"
                      /\ spread_trades'[i].realized_pnl = spread_trades[i].expected_profit
                      /\ budget_tracking' =
                           {[TodayBudget EXCEPT
                               !.profit_loss = @ + spread_trades[i].expected_profit,
                               !.trades_count = @ + 1]}
            ELSE spread_trades'[i].expected_profit =
                   ExpectedProfit(spread_opportunities[spread_trades'[i].opportunity_id],
                                  spread_trades'[i].total_invested)]_vars

\* C15's case: a trade was closed at its expected profit after a scan had
\* refreshed its opportunity to another spread, and another trade is open
\* on an opportunity that a scan has deactivated.
C15_Witness ==
  /\ \E i \in DOMAIN spread_trades :
       /\ spread_trades[i].status = "CLOSED"
       /\ spread_trades[i].credited = 1
       /\ spread_trades[i].realized_pnl = spread_trades[i].expected_profit
       /\ spread_trades[i].expected_profit #
            ExpectedProfit(spread_opportunities[spread_trades[i].opportunity_id],
                           spread_trades[i].total_invested)
  /\ \E i \in DOMAIN spread_trades :
       ~spread_opportunities[spread_trades[i].opportunity_id].is_active

C17_DedupedByTypeAndIdentifier ==
  /\ \A i, j \in DOMAIN spread_opportunities :
       /\ i # j
       /\ spread_opportunities[i].is_active
       /\ spread_opportunities[j].is_active
       /\ spread_opportunities[i].opportunity_type
            = spread_opportunities[j].opportunity_type
       => identifier(spread_opportunities[i]) # identifier(spread_opportunities[j])
  /\ \A id \in DOMAIN spread_opportunities :
       spread_opportunities[id].writer = spread_opportunities[id].owner

\* C18: when a scan has completed, no active opportunity was last seen
\* longer ago than the staleness window, and every row the scan refreshed
\* is active and was last seen now.
C18_StaleDeactivatedSeenKept ==
  \A scan \in scanned :
    /\ \A id \in DOMAIN spread_opportunities :
         spread_opportunities[id].is_active =>
           spread_opportunities[id].age <= StaleWindow
    /\ \A id \in scan.bumped :
         /\ spread_opportunities[id].is_active
         /\ spread_opportunities[id].age = 0

\* C18's case: the scan that completed refreshed a row and left inactive a
\* row inserted after it.
C18_Witness ==
  \E scan \in scanned :
    \E id \in scan.bumped :
      \E other \in DOMAIN spread_opportunities :
        other > id /\ ~spread_opportunities[other].is_active

-----------------------------------------------------------------------------
(* The advisory claims *)

\* C19: no advisory consultation is started for a market that was analyzed
\* less than the cooldown ago, in whatever cycle.
C19_NoConsultationWithinCooldown ==
  \A cycle \in cycles : cycle.pc \in Range(Advisors) => ~cycle.early

\* The advisors of a consultation history, in order, and those that failed
Consulted(history) == [k \in DOMAIN history |-> history[k][1]]
AllFailed(history) == \A k \in DOMAIN history : ~history[k][2]

\* The order in which analyzeAndTrade may have consulted the advisors whose
\* answers a history holds
FallbackOrder(history) ==
  /\ AllFailed(history)
  /\ Consulted(history) \in
       {<<>>, <<"Claude">>} \cup
       (IF providers.gemini
          THEN {<<"Claude", "Gemini">>} \cup
               (IF providers.local THEN {<<"Claude", "Gemini", "Local LLM">>} ELSE {})
          ELSE IF providers.local THEN {<<"Claude", "Local LLM">>} ELSE {})

\* The step in which the last advisor available to a cycle fails
AllAdvisorsFailed(cycle) ==
  /\ cycle.pc \in Range(Advisors)
  /\ NextAdvisor(cycle.pc) = "none"
  /\ \A c \in cycles' : c.id = cycle.id => c.pc \notin Range(Advisors) \cup {"sleep", "trade"}
  /\ analysis_logs' = analysis_logs

\* C20: Gemini is consulted only after Claude failed, the local model only
\* after Gemini failed or was not initialized; every logged analysis is the
\* decision of the one advisor that answered, after the failures of those
\* before it; a trade is carried to execution only with a logged BUY
\* decision; and when the last advisor fails nothing is logged or traded
\* and the cycle goes on with its next market.
C20_FallbackOrder ==
  /\ [](\A cycle \in cycles :
         cycle.pc \in Range(Advisors) =>
           /\ FallbackOrder(cycle.consulted)
           /\ Append(Consulted(cycle.consulted), cycle.pc) \in
                {<<"Claude">>, <<"Claude", "Gemini">>, <<"Claude", "Local LLM">>,
                 <<"Claude", "Gemini", "Local LLM">>}
           /\ cycle.pc = "Local LLM" /\ providers.gemini =>
                Consulted(cycle.consulted) = <<"Claude", "Gemini">>)
  /\ [](\A k \in DOMAIN analysis_logs :
         LET log == analysis_logs[k]
             n == Len(log.consulted)
         IN  /\ n >= 1
             /\ log.consulted[n] = <<log.aiProvider, TRUE>>
             /\ FallbackOrder(SubSeq(log.consulted, 1, n - 1)))
  /\ [][/\ Len(aiFlows') > Len(aiFlows) =>
            /\ Len(analysis_logs') = Len(analysis_logs) + 1
            /\ analysis_logs'[Len(analysis_logs')].decision = "BUY_YES"
            /\ analysis_logs'[Len(analysis_logs')].market_id = aiFlows'[Len(aiFlows')].market_id
        /\ \A cycle \in cycles :
             AllAdvisorsFailed(cycle) =>
               /\ UNCHANGED <<trades, aiFlows, budget_tracking, last_analysis>>
               /\ Len(cycle.markets) > 1 =>
                    \E c \in cycles' :
                      /\ c.id = cycle.id
                      /\ c.markets = Tail(cycle.markets)
                      /\ c.pc = "cooldown"]_vars

\* C20's case: an analysis by the local model is logged after Claude and
\* Gemini failed, and a cycle is at its second market after all advisors
\* failed for its first: nothing was logged for that market.
C20_Witness ==
  /\ \E k \in DOMAIN analysis_logs :
       /\ analysis_logs[k].aiProvider = "Local LLM"
       /\ Len(analysis_logs[k].consulted) = 3
  /\ \E cycle \in cycles :
       /\ cycle.prev = "All AI providers failed"
       /\ Head(cycle.markets) = "m2"
       /\ \A k \in DOMAIN analysis_logs : analysis_logs[k].market_id # "m1"
       /\ last_analysis["m1"] = NeverAnalyzed
       /\ trades = <<>> /\ aiFlows = <<>>

\* C21: a malformed advisory response is converted into HOLD with
\* confidence 0: the step that receives it logs that HOLD, carries no trade
\* to execution and ends the call without another advisor being consulted.
C21_MalformedBecomesHold ==
  [][\A cycle \in cycles, after \in cycles' :
       /\ after.id = cycle.id
       /\ after.malformed # {}
       /\ after.malformed # cycle.malformed
       => /\ after.pc = "sleep"
          /\ aiFlows' = aiFlows
          /\ Len(analysis_logs') = Len(analysis_logs) + 1
          /\ analysis_logs'[Len(analysis_logs')].decision = "HOLD"
          /\ analysis_logs'[Len(analysis_logs')].confidence = 0]_vars

-----------------------------------------------------------------------------
(* The trading cycle's claims *)

\* C22: a failure while one market of a cycle or one trade of a resolution
\* is processed does not stop the rest: in every step a cycle with markets
\* left stays at its market or goes on to the next one, and a resolution
\* with trades left stays at its trade or goes on to the next one.
C22_FailureDoesNotStopTheRest ==
  [][/\ \A cycle \in cycles :
          Len(cycle.markets) > 1 =>
            \E c \in cycles' :
              /\ c.id = cycle.id
              /\ \/ c.markets = cycle.markets
                 \/ c.markets = Tail(cycle.markets) /\ c.pc = "cooldown"
     /\ \A flow \in resolveFlows :
          Len(flow.queue) > 1 =>
            \E f \in resolveFlows' :
              /\ f.run = flow.run
              /\ f.queue \in {flow.queue, Tail(flow.queue)}]_vars

\* C22's case: the execution of the trade decided for m1 failed and m2 was
\* analyzed and traded after it; later the resolution of the first expired
\* trade failed and the run is at the next one.
C22_Witness ==
  /\ Len(trades) = 3
  /\ trades[2].status = "FAILED" /\ trades[2].market_id = "m1"
  /\ Len(analysis_logs) = 2
  /\ analysis_logs[1].market_id = "m1"
  /\ analysis_logs[2].market_id = "m2"
  /\ \E flow \in resolveFlows :
       /\ flow.failed = {1}
       /\ Head(flow.queue).id = 3

\* C23: every cycle begins with the resolution of the expired trades,
\* whether trading is enabled or not: the expired markets are deactivated
\* and the unresolved trades queued; the cycle goes on only when that
\* resolution has returned, and when trading is then disabled it ends
\* without a consultation, a log, a trade or a debit.
C23_ResolveFirstThenStopIfDisabled ==
  [][/\ \A c \in cycles' :
          (\A old \in cycles : old.id # c.id) =>
            /\ c.pc = "resolve"
            /\ monitored_markets' = deactivateExpiredMarkets
            /\ getUnresolvedTrades # {} =>
                 \E f \in resolveFlows' \ resolveFlows :
                   /\ f.run = c.run
                   /\ {f.queue[k].id : k \in DOMAIN f.queue} = getUnresolvedTrades
     /\ \A cycle \in cycles :
          /\ cycle.pc = "resolve"
          /\ \A c \in cycles' : c.id = cycle.id => c.pc # "resolve"
          => /\ \A f \in resolveFlows : f.run # cycle.run
             /\ ~trading_enabled =>
                  /\ \A c \in cycles' : c.id # cycle.id
                  /\ UNCHANGED <<analysis_logs, last_analysis, trades,
                                 aiFlows, budget_tracking>>
     /\ \A c \in cycles' :
          c.pc \in Range(Advisors) =>
            \E cycle \in cycles : cycle.id = c.id /\ cycle.pc # "resolve"]_vars

\* C23's case: trading is disabled and a cycle has resolved the expired
\* trade, its resolution has returned and the cycle is about to test
\* whether trading is enabled; nothing was analyzed.
C23_Witness ==
  /\ ~trading_enabled
  /\ trades[1].status = "RESOLVED"
  /\ analysis_logs = <<>>
  /\ resolveFlows = {}
  /\ \E cycle \in cycles : cycle.pc = "resolve" /\ cycle.run # 0

-----------------------------------------------------------------------------
(* The claims about paper and live trading *)

\* C24: an order is placed by the value paper_trading_mode has in the store
\* at that time: when an execution with a client is about to place an order,
\* the flag PolymarketService decides by equals the store's.
C24_OrdersFollowTheStore ==
  \A e \in exec :
    e.pc = "order" /\ pm.client => pm.isPaperMode = paper_trading_mode

\* C26: is_paper_trade of an AI trade, a spread trade and a sniped position
\* is set when the row is recorded and no later step changes it.
C26_PaperFlagSetOnce ==
  [][/\ \A i \in DOMAIN trades :
          /\ i \in DOMAIN trades'
          /\ trades'[i].is_paper_trade = trades[i].is_paper_trade
     /\ \A i \in DOMAIN spread_trades :
          /\ i \in DOMAIN spread_trades'
          /\ spread_trades'[i].is_paper_trade = spread_trades[i].is_paper_trade
     /\ \A i \in DOMAIN sniped_positions :
          /\ i \in DOMAIN sniped_positions'
          /\ sniped_positions'[i].is_paper_trade = sniped_positions[i].is_paper_trade]_vars

\* C26's case: a paper AI trade was resolved, and a live spread trade and a
\* live sniped position were closed, the store being in paper mode by then.
C26_Witness ==
  /\ paper_trading_mode
  /\ Len(trades) = 1 /\ trades[1].status = "RESOLVED" /\ trades[1].is_paper_trade
  /\ Len(spread_trades) = 1
  /\ spread_trades[1].status = "CLOSED" /\ ~spread_trades[1].is_paper_trade
  /\ Len(sniped_positions) = 1
  /\ sniped_positions[1].status = "CLOSED" /\ ~sniped_positions[1].is_paper_trade
  /\ sniped_positions[1].current_price = 55

\* The orders that have reached the exchange, in executions under way and
\* in the trades recorded
LiveOrders ==
  SumSeq([i \in DOMAIN spread_trades |-> spread_trades[i].live_orders])
    + (IF exec = {} THEN 0 ELSE Row(exec).live)

\* C25: while paper_trading_mode is set in the store no order reaches the
\* exchange: every step in which one does is taken with the flag unset.
C25_NoLiveOrderInPaperMode ==
  [][LiveOrders' > LiveOrders => ~paper_trading_mode]_vars

-----------------------------------------------------------------------------
(* The sniped positions' claims *)

\* C27: at any time there is at most one OPEN sniped position per
\* (condition id, outcome), however the snipe calls interleave.
C27_OneOpenPositionPerOutcome ==
  \A i, j \in getOpenSnipedPositions :
    /\ sniped_positions[i].condition_id = sniped_positions[j].condition_id
    /\ sniped_positions[i].outcome = sniped_positions[j].outcome
    => i = j

\* The checkAndClosePositions call that waits for the sell order of a position
Selling(i) == \E close \in closes : close.pc = "sell" /\ Head(close.queue).id = i

C29_LiveClosedOnlyWhenSold ==
  \A i \in DOMAIN sniped_positions :
    /\ sniped_positions[i].status = "CLOSED"
    /\ ~sniped_positions[i].is_paper_trade
    => sniped_positions[i].sold

-----------------------------------------------------------------------------
(* The ledger's claims *)

-----------------------------------------------------------------------------
(* The AI loop's claims *)

\* C31: validateTrade, none of whose reads fails, applied again to the same
\* proposal in the state the first application leaves returns the same
\* approval and the same adjusted size, and the validation changes no trade,
\* not today's spent and no other total of the ledger.
C31_ValidationIsPure ==
  [][\A v \in lastVal' :
       v.fail = "none" =>
         /\ validateTrade(v.proposal, "none")' = v.result
         /\ trades' = trades
         /\ SpentToday' = SpentToday
         /\ budgetUpdates' = budgetUpdates]_vars

\* C31's case: a validation has created today's row and approved its
\* proposal at a clamped size while an earlier trade is recorded.
C31_Witness ==
  \E v \in lastVal :
    /\ v.fail = "none"
    /\ v.result.approved
    /\ v.result.adjustedSize # v.proposal.size
    /\ trades # <<>>
    /\ aiFlows # <<>>

\* C32: at any time a market has at most one EXECUTED AI trade: no BUY is
\* executed for a market while it has one.
C32_OneExecutedTradePerMarket ==
  \A i, j \in DOMAIN trades :
    /\ trades[i].status = "EXECUTED"
    /\ trades[j].status = "EXECUTED"
    /\ trades[i].market_id = trades[j].market_id
    => i = j

\* C33: every step that records an AI BUY trade completes a call whose
\* proposal validateTrade approved, records the adjustedSize the gate
\* returned for it, and increases today's spent by exactly that size.
C33_RecordedAtAdjustedSize ==
  [][Len(trades') > Len(trades) =>
       \E i \in DOMAIN aiFlows :
         /\ aiFlows' = RemoveAt(aiFlows, i)
         /\ trades'[Len(trades')].market_id = aiFlows[i].market_id
         /\ trades'[Len(trades')].size = aiFlows[i].adjustedSize
         /\ SpentToday' = SpentToday + aiFlows[i].adjustedSize]_vars

\* The analysis logged by the step, if the step logs one
Logged(decision) ==
  /\ Len(analysis_logs') = Len(analysis_logs) + 1
  /\ analysis_logs'[Len(analysis_logs')].decision = decision

\* C34: a step that acts on HOLD changes no trade and no budget counter; a
\* step that acts on SELL for a market with an EXECUTED trade sets that
\* trade RESOLVED with pnl = (size / entry price) x current price - size
\* and adds that to today's profit_loss while spent stays; a step that acts
\* on SELL for a market without one changes no trade and no budget counter.
C34_HoldAndSellEffects ==
  [][/\ Logged("HOLD") => trades' = trades /\ budget_tracking' = budget_tracking
     /\ Logged("SELL") =>
          LET marketId == analysis_logs'[Len(analysis_logs')].market_id
              held == getOpenPositionForMarket(marketId)
          IN  IF held = NoPosition
                THEN trades' = trades /\ budget_tracking' = budget_tracking
                ELSE \E sellPrice \in SellPrices :
                       /\ trades' =
                            [trades EXCEPT
                               ![held].status = "RESOLVED",
                               ![held].resolved_outcome = "SOLD",
                               ![held].sell_order_id = "PAPER_SELL",
                               ![held].pnl = SellPnl(trades[held], sellPrice)]
                       /\ TodayBudget'.profit_loss =
                            TodayBudget.profit_loss + SellPnl(trades[held], sellPrice)
                       /\ TodayBudget'.spent = TodayBudget.spent]_vars

\* A step in which updateBudget credits a P&L (it debits nothing) while no
\* spread trade and no sniped position changes: the credit of an AI trade
CreditsAiTrade ==
  /\ budgetUpdates'.calls = budgetUpdates.calls + 1
  /\ budgetUpdates'.spent = budgetUpdates.spent
  /\ spread_trades' = spread_trades
  /\ sniped_positions' = sniped_positions

\* C39: an AI trade becomes RESOLVED only from EXECUTED, a RESOLVED trade
\* is never changed again, and every step that credits the P&L of an AI
\* trade is the step in which one trade goes from EXECUTED to RESOLVED with
\* that P&L.
C39_SettledOnce ==
  [][/\ \A i \in DOMAIN trades :
          /\ trades'[i].status = "RESOLVED" =>
               trades[i].status \in {"EXECUTED", "RESOLVED"}
          /\ trades[i].status = "RESOLVED" => trades'[i] = trades[i]
     /\ CreditsAiTrade =>
          \E i \in DOMAIN trades :
            /\ trades[i].status = "EXECUTED"
            /\ trades'[i].status = "RESOLVED"
            /\ budgetUpdates'.profit_loss = budgetUpdates.profit_loss + trades'[i].pnl
            /\ \A j \in DOMAIN trades \ {i} : trades'[j] = trades[j]]_vars

-----------------------------------------------------------------------------
(* The claims about executeSpread *)

\* C35: a step that records a spread trade records exactly one, OPEN, for
\* the opportunity's n outcomes, with total_invested the total investment T
\* of the call and n x size_per_outcome = T; it increases today's spent by
\* exactly T, leaves profit_loss as it was, and leaves the resolver running.
C35_ExecutionRecordsAndDebits ==
  [][Len(spread_trades') > Len(spread_trades) =>
       LET new == spread_trades'[Len(spread_trades')]
           opp == spread_opportunities[new.opportunity_id]
       IN  /\ Len(spread_trades') = Len(spread_trades) + 1
           /\ new.status = "OPEN"
           /\ new.total_invested \in Investments
           /\ exec # {} => new.total_invested = Row(exec).totalInvestment
           /\ new.num_outcomes = opp.num_outcomes
           /\ new.num_outcomes * new.size_per_outcome = new.total_invested
           /\ TodayBudget'.spent = TodayBudget.spent + new.total_invested
           /\ TodayBudget'.profit_loss = TodayBudget.profit_loss
           /\ isResolverRunning'
           /\ exec' = {}]_vars

\* C35's case: a trade was recorded while the resolver was stopped, and a
\* second one while it was running; both are open and debited.
C35_Witness ==
  /\ Len(spread_trades) = 2
  /\ \A i \in DOMAIN spread_trades : spread_trades[i].status = "OPEN"
  /\ TodayBudget.spent = 4
  /\ isResolverRunning

\* C36: every spread trade recorded as live carries only order ids the
\* exchange returned, and every sniped position recorded as live was bought
\* with an order placed on the exchange: none carries an id of the paper
\* stub.
C36_LiveRecordsCarryLiveOrders ==
  /\ \A i \in DOMAIN spread_trades :
       ~spread_trades[i].is_paper_trade =>
         \A k \in DOMAIN spread_trades[i].order_ids :
           spread_trades[i].order_ids[k] = "LIVE"
  /\ \A i \in DOMAIN sniped_positions :
       ~sniped_positions[i].is_paper_trade => sniped_positions[i].live_buy

\* C37: a step in which executeSpread throws at the lookup places no
\* order, records no spread trade, leaves the budget and the resolver as
\* they were, and every step that begins an execution does so for an
\* opportunity that is active: a call for another id has no effect but the
\* error.
C37_InactiveIdHasNoEffect ==
  [][/\ spreadErrors' # spreadErrors =>
          /\ \A o \in spreadErrors' \ spreadErrors :
               o \notin DOMAIN spread_opportunities
                 \/ ~spread_opportunities[o].is_active
          /\ UNCHANGED <<spread_trades, exec, pm, budget_tracking, budgetUpdates,
                         isResolverRunning, resolveInterval, timers, schedCheck,
                         spread_opportunities>>
     /\ exec = {} /\ exec' # {} =>
          /\ Row(exec').opp.id \in DOMAIN spread_opportunities
          /\ spread_opportunities[Row(exec').opp.id].is_active
     /\ exec = {} /\ Len(spread_trades') > Len(spread_trades) =>
          /\ spread_trades'[Len(spread_trades')].opportunity_id
               \in DOMAIN spread_opportunities
          /\ spread_opportunities[
               spread_trades'[Len(spread_trades')].opportunity_id].is_active]_vars

\* C37's case: executeSpread has thrown for the first opportunity, which a
\* scan had deactivated, and for an id the table does not have, after a
\* trade was made.
C37_Witness ==
  /\ spreadErrors = {1, MaxRows + 1}
  /\ 1 \in DOMAIN spread_opportunities
  /\ ~spread_opportunities[1].is_active
  /\ spread_trades # <<>>

-----------------------------------------------------------------------------
(* The claims about closing sniped positions *)

\* C40: a CLOSED sniped position never returns to OPEN, and every step
\* that credits a realized P&L is the step in which one position goes from
\* OPEN to CLOSED with that P&L: no position is credited twice.
C40_ClosedOnce ==
  [][/\ \A i \in DOMAIN sniped_positions :
          sniped_positions[i].status = "CLOSED" =>
            sniped_positions'[i].status = "CLOSED"
     /\ budgetUpdates'.calls > budgetUpdates.calls =>
          \E i \in DOMAIN sniped_positions :
            /\ sniped_positions[i].status = "OPEN"
            /\ sniped_positions'[i].status = "CLOSED"
            /\ budgetUpdates'.profit_loss =
                 budgetUpdates.profit_loss + sniped_positions'[i].realized_pnl]_vars

====
